---------------------------- MODULE Spec2Model ----------------------------
(***************************************************************************)
(* A model of inkscape-plot: the chart data model (graph.py), the          *)
(* monolithic InkscapeRenderer (renderer.py) and the extension entry point *)
(* with its part renderers (main.py, renderer/).                           *)
(*                                                                         *)
(* Numbers.  Python floats are modelled by exact fixed-point numbers: the  *)
(* integer n stands for the value n / Unit.  Results of a division (the    *)
(* normalized coordinates, the pixel positions) are exact reduced          *)
(* fractions [n, d].  Floating-point rounding is outside the model.        *)
(***************************************************************************)
EXTENDS Integers, Sequences, FiniteSets, TLC

VARIABLES
    call,       \* the pure-function call under test (SpecPure)
    ret,        \* its result, NoRet until the call has run
    scene,      \* the children of the current layer: a sequence of root groups
    req,        \* the render request handled, with its outcome (NoReq before)
    runs        \* the renders that share one graph, each with its position

vars == <<call, ret, scene, req, runs>>

---------------------------------------------------------------------------
(* Program constants                                                       *)

DefaultBase == 10
PlotWidth == 400
PlotHeight == 400

(* Bounds of the model                                                     *)

MaxVal == 3
MaxPoints == 3
NumPages == 1

---------------------------------------------------------------------------
(* Arithmetic                                                              *)

\* One real unit in fixed-point: values are held in units of 1/base, so
\* that the decade below 1 (0.1 .. 0.9) is representable.
Unit == DefaultBase
U(n) == n * Unit

Abs(a) == IF a < 0 THEN -a ELSE a
Min2(a, b) == IF a <= b THEN a ELSE b
Max2(a, b) == IF a >= b THEN a ELSE b

RECURSIVE GCD(_, _)
GCD(a, b) == IF b = 0 THEN a ELSE GCD(b, a % b)

RECURSIVE Pow(_, _)
Pow(b, e) == IF e <= 0 THEN 1 ELSE b * Pow(b, e - 1)

\* math.ceil(a / b) for b > 0
CeilDiv(a, b) == -((-a) \div b)

\* The exact quotient n / d (d # 0) as a reduced fraction with d > 0.
Rat(n, d) ==
    LET g == GCD(Abs(n), Abs(d))
        s == IF d < 0 THEN -1 ELSE 1
    IN  [n |-> s * (n \div g), d |-> s * (d \div g)]

RatInt(k) == [n |-> k, d |-> 1]
RatLE(a, b) == a.n * b.d <= b.n * a.d
RatLT(a, b) == a.n * b.d < b.n * a.d
RatMul(a, b) == Rat(a.n * b.n, a.d * b.d)
RatSub(a, b) == Rat(a.n * b.d - b.n * a.d, a.d * b.d)

\* A function result: a value, or the exception that was raised.
Ok(v) == [ok |-> TRUE, val |-> v, err |-> "none"]
Raise(e) == [ok |-> FALSE, val |-> RatInt(0), err |-> e]

---------------------------------------------------------------------------
(* graph.py: Range                                                         *)

\* Range is a plain dataclass: construction stores the two bounds and
\* validates nothing.
Range(lo, hi) == [min |-> lo, max |-> hi]

---------------------------------------------------------------------------
(* graph.py: normalizers                                                   *)

\* Variant: the value is used as it comes.
NoClamp(r, value) == value

\* the clamp of lines 53-55 / 72-74: max(lower_bound, min(value, upper_bound))
Clamp(r, value) ==
    LET lower_bound == Min2(r.min, r.max)
        upper_bound == Max2(r.min, r.max)
    IN  Max2(lower_bound, Min2(value, upper_bound))

\* Variant: the numerator is not taken relative to the start of the range.
LinearNormalizeFromZero(r, value) ==
    IF r.max = r.min
    THEN Raise("ValueError")
    ELSE Ok(Rat(Clamp(r, value), r.max - r.min))

LinearNormalize(r, value) ==
    IF r.max = r.min
    THEN Raise("ValueError")
    ELSE Ok(Rat(Clamp(r, value) - r.min, r.max - r.min))

\* floor(log10(v / Unit)) for a fixed-point v > 0: the largest e with
\* 10^e <= v / Unit.
RECURSIVE FloorLogFrom(_, _, _)
FloorLogFrom(b, v, e) ==
    IF Unit * Pow(b, e + 1) <= v THEN FloorLogFrom(b, v, e + 1) ELSE e

FloorLog(b, v) ==
    IF v >= Unit THEN FloorLogFrom(b, v, 0)
    ELSE \* v / Unit < 1: the least k >= 1 with Unit <= v * b^k, negated
         -(CHOOSE k \in 1..8 :
              /\ Unit <= v * Pow(b, k)
              /\ \A j \in 1..(k - 1) : Unit > v * Pow(b, j))

\* base ** exp in fixed-point; exact whenever exp >= 0 or base^(-exp)
\* divides Unit (the inputs of the model keep to such exponents).
PowFx(b, e) == IF e >= 0 THEN Unit * Pow(b, e) ELSE Unit \div Pow(b, -e)

\* math.ceil(math.log(v, b)): the floor itself at an exact power of b
CeilLog(b, v) ==
    IF v > 0 /\ PowFx(b, FloorLog(b, v)) = v THEN FloorLog(b, v)
    ELSE FloorLog(b, v) + 1

\* log10 of the digits 1..9 in thousandths (math.log rounded to 3 places).
Log10Milli(m) ==
    CASE m = 1 -> 0   [] m = 2 -> 301 [] m = 3 -> 477
      [] m = 4 -> 602 [] m = 5 -> 699 [] m = 6 -> 778
      [] m = 7 -> 845 [] m = 8 -> 903 [] m = 9 -> 954

\* math.log(v / Unit, 10) in thousandths, for a one-digit mantissa:
\* v / Unit = m * 10^e with m in 1..9.
LogMilli(v) ==
    LET e == FloorLog(10, v)
        m == IF e >= 0 THEN v \div PowFx(10, e) ELSE (v * Pow(10, -e)) \div Unit
    IN  1000 * e + Log10Milli(m)

\* Variant: the value is normalized from the lower to the upper bound,
\* whichever of min and max that is.
LogNormalizeAscending(base, r, value) ==
    IF r.min <= 0 \/ r.max <= 0
    THEN Raise("ValueError")
    ELSE IF r.max = r.min
    THEN Raise("ValueError")
    ELSE Ok(Rat(LogMilli(Clamp(r, value)) - LogMilli(Min2(r.min, r.max)),
                LogMilli(Max2(r.min, r.max)) - LogMilli(Min2(r.min, r.max))))

\* math.log(x, base) = log(x) / log(base): the base cancels in the quotient
\* of line 76-78, which is therefore computed from the decimal logarithms.
LogNormalize(base, r, value) ==
    IF r.min <= 0 \/ r.max <= 0
    THEN Raise("ValueError")
    ELSE IF r.max = r.min
    THEN Raise("ValueError")
    ELSE Ok(Rat(LogMilli(Clamp(r, value)) - LogMilli(r.min),
                LogMilli(r.max) - LogMilli(r.min)))

---------------------------------------------------------------------------
(* graph.py: tickers.  A tick sequence is the sequence of the Tick values. *)

RECURSIVE StepLoop(_, _, _)
\* lines 116-119: while current <= upper: append; current += step
StepLoop(current, step, upper) ==
    IF current <= upper
    THEN <<current>> \o StepLoop(current + step, step, upper)
    ELSE <<>>

\* Variant: a start below the range is not advanced into it.
StepTickerNoAdvance(step, offset, r) ==
    IF step <= 0 THEN <<>>
    ELSE StepLoop(Min2(r.min, r.max) + offset, step, Max2(r.min, r.max))

\* Variant: a negative step is taken by its size, only a zero step gives
\* no ticks.
StepTickerAnyStep(step, offset, r) ==
    IF step = 0 THEN <<>>
    ELSE StepLoop(Min2(r.min, r.max), Abs(step), Max2(r.min, r.max))

\* StepTicker(step, offset).get_ticks(data_range)
StepTickerGetTicks(step, offset, r) ==
    IF step <= 0 THEN <<>>
    ELSE
        LET lower == Min2(r.min, r.max)
            upper == Max2(r.min, r.max)
            start0 == lower + offset
            start == IF start0 < lower
                     THEN start0 + CeilDiv(lower - start0, step) * step
                     ELSE start0
        IN  StepLoop(start, step, upper)

\* Keep the members of a sequence that lie in [lower, upper], in order.
RECURSIVE InRangeOnly(_, _, _)
InRangeOnly(s, lower, upper) ==
    IF s = <<>> THEN <<>>
    ELSE LET rest == InRangeOnly(Tail(s), lower, upper)
         IN  IF lower <= Head(s) /\ Head(s) <= upper
             THEN <<Head(s)>> \o rest
             ELSE rest

\* Variant: every power from exp_min to exp_max is a tick, in the range or
\* not.
LogMainTickerUnfiltered(base, r) ==
    IF r.min <= 0 \/ r.max <= 0 THEN <<>>
    ELSE
        LET exp_min == FloorLog(base, Min2(r.min, r.max))
            exp_max == CeilLog(base, Max2(r.min, r.max))
        IN  [k \in 1..(exp_max - exp_min + 1) |-> PowFx(base, exp_min + k - 1)]

\* LogMainTicker(base).get_ticks(data_range)
LogMainTickerGetTicks(base, r) ==
    IF r.min <= 0 \/ r.max <= 0 THEN <<>>
    ELSE
        LET lower == Min2(r.min, r.max)
            upper == Max2(r.min, r.max)
            exp_min == FloorLog(base, lower)
            exp_max == CeilLog(base, upper)
            n == exp_max - exp_min + 1
            candidates == [k \in 1..n |-> PowFx(base, exp_min + k - 1)]
        IN  InRangeOnly(candidates, lower, upper)

\* Variant: the multiples start at i = 1, the power itself.
LogSubTickerFromOne(base, r) ==
    IF r.min <= 0 \/ r.max <= 0 THEN <<>>
    ELSE
        LET lower == Min2(r.min, r.max)
            upper == Max2(r.min, r.max)
            exp_min == FloorLog(base, lower)
            exp_max == CeilLog(base, upper)
            per == base - 1
            n == (exp_max - exp_min + 1) * per
            candidates ==
                [k \in 1..n |->
                    PowFx(base, exp_min + ((k - 1) \div per))
                        * (1 + ((k - 1) % per))]
        IN  InRangeOnly(candidates, lower, upper)

\* LogSubTicker(base).get_ticks(data_range): for each exponent, the
\* multiples i = 2 .. int(base) - 1 of base ** exp, in loop order.
LogSubTickerGetTicks(base, r) ==
    IF r.min <= 0 \/ r.max <= 0 THEN <<>>
    ELSE
        LET lower == Min2(r.min, r.max)
            upper == Max2(r.min, r.max)
            exp_min == FloorLog(base, lower)
            exp_max == CeilLog(base, upper)
            per == IF base > 2 THEN base - 2 ELSE 0
            n == (exp_max - exp_min + 1) * per
            candidates ==
                [k \in 1..n |->
                    PowFx(base, exp_min + ((k - 1) \div per))
                        * (2 + ((k - 1) % per))]
        IN  InRangeOnly(candidates, lower, upper)

---------------------------------------------------------------------------
(* The call of a pure function and its result                              *)

Call(op, base, lo, hi, value, step, offset) ==
    [op |-> op, base |-> base, min |-> lo, max |-> hi,
     value |-> value, step |-> step, offset |-> offset,
     data_text |-> <<>>, x_column |-> 0, y_column |-> 0, delimiter |-> ""]

NoCall == Call("none", 0, 0, 0, 0, 0, 0)

NoRet ==
    [done |-> FALSE, ok |-> TRUE, val |-> RatInt(0), err |-> "none",
     ticks |-> <<>>]

---------------------------------------------------------------------------
(* The scene.  The layer holds root groups; a root group holds its subtree *)
(* flattened in document order, every node with its depth below the root.  *)
(* A node records the request that created it (0: it was there before).    *)

RatAdd(a, b) == Rat(a.n * b.d + b.n * a.d, a.d * b.d)

\* graph.py: Point, also the coordinates of a node
Point(x, y) == [x |-> x, y |-> y]

Node(part, kind, depth, p, q, val) ==
    [req |-> 0, part |-> part, kind |-> kind, depth |-> depth,
     p |-> p, q |-> q, val |-> val]

GroupNode(part, depth) == Node(part, "group", depth, Point(RatInt(0), RatInt(0)), Point(RatInt(0), RatInt(0)), 0)
LineNode(part, kind, depth, x1, y1, x2, y2, val) ==
    Node(part, kind, depth, Point(x1, y1), Point(x2, y2), val)
TextNode(part, kind, depth, x, y, val) ==
    Node(part, kind, depth, Point(x, y), Point(x, y), val)

\* What a drawing step did: the nodes it attached, and whether it returned
\* or raised.
Done(nodes) == [ok |-> TRUE, nodes |-> nodes, err |-> "none"]
Failed(nodes, err) == [ok |-> FALSE, nodes |-> nodes, err |-> err]

RECURSIVE Flatten(_)
Flatten(ss) == IF ss = <<>> THEN <<>> ELSE Head(ss) \o Flatten(Tail(ss))

\* Steps run one after the other: the first one that raises ends the run,
\* and what was attached until then stays attached.
Sequential(rs) ==
    LET bad == {i \in 1..Len(rs) : ~rs[i].ok}
        stop == IF bad = {} THEN Len(rs)
                ELSE CHOOSE i \in bad : \A j \in bad : i <= j
    IN  [ok |-> bad = {},
         nodes |-> Flatten([i \in 1..stop |-> rs[i].nodes]),
         err |-> IF bad = {} THEN "none" ELSE rs[stop].err]

Stamp(nodes, n) == [i \in 1..Len(nodes) |-> [nodes[i] EXCEPT !.req = n]]

---------------------------------------------------------------------------
(* graph.py: the chart description read by InkscapeRenderer                *)

NoTicker == [kind |-> "none", step |-> 0, offset |-> 0, base |-> 0]
StepTicker(step, offset) == [kind |-> "step", step |-> step, offset |-> offset, base |-> 0]
LogMainTicker(base) == [kind |-> "logmain", step |-> 0, offset |-> 0, base |-> base]
LogSubTicker(base) == [kind |-> "logsub", step |-> 0, offset |-> 0, base |-> base]

\* ticker.get_ticks(data_range), by the class of the ticker
GetTicks(t, r) ==
    CASE t.kind = "step" -> StepTickerGetTicks(t.step, t.offset, r)
      [] t.kind = "logmain" -> LogMainTickerGetTicks(t.base, r)
      [] t.kind = "logsub" -> LogSubTickerGetTicks(t.base, r)
      [] OTHER -> <<>>

\* Axis.transform: self.normalizer.normalize(self.range, value)
Transform(axis, value) ==
    IF axis.normalizer = "linear"
    THEN LinearNormalize(axis.range, value)
    ELSE LogNormalize(DefaultBase, axis.range, value)

---------------------------------------------------------------------------
(* graph.py: ScientificFormatter (renderer/axis.py holds the same class).  *)
(* The text is held by its parts: "0", "10^exp" or "mantissa x 10^exp",   *)
(* the mantissa in units of 10^-precision.                                *)

DefaultPrecision == 0

FormattedText(form, mantissa, exp) ==
    [form |-> form, mantissa |-> mantissa, exp |-> exp]

\* f"{q:.0f}": the nearest whole number, the even one of two that are
\* equally near.
RoundHalfEven(q) ==
    LET lower == q.n \div q.d
        twice == 2 * (q.n - lower * q.d)
    IN  IF twice < q.d THEN lower
        ELSE IF twice > q.d THEN lower + 1
        ELSE IF lower % 2 = 0 THEN lower ELSE lower + 1

\* ScientificFormatter(precision).format(value)
ScientificFormat(precision, value) ==
    IF value = 0 THEN FormattedText("0", 0, 0)
    ELSE LET exp == FloorLog(10, Abs(value))
             mantissa == Rat(value, PowFx(10, exp))
         IN  IF precision = 0 /\ mantissa = RatInt(1)
             THEN FormattedText("10^exp", 1, exp)
             ELSE FormattedText("mantissa x 10^exp",
                      RoundHalfEven(RatMul(mantissa, RatInt(Pow(10, precision)))),
                      exp)

---------------------------------------------------------------------------
(* style.py: GraphStyle.default()                                          *)

FrameStrokeWidth == 2
MainTickLength == 12
SubTickLength == 8
TickLabelOffset == 8
AxisLabelOffset == 30
TickLabelFontSize == 12

---------------------------------------------------------------------------
(* renderer.py: InkscapeRenderer                                           *)

Horizontal(axis) == axis.placement \in {"bottom", "top"}

CalcAxisPosition(axis, width, height) ==
    CASE axis.placement = "bottom" -> height + axis.offset
      [] axis.placement = "top" -> -axis.offset
      [] axis.placement = "left" -> -axis.offset
      [] axis.placement = "right" -> width + axis.offset
      [] OTHER -> 0

CalcOppositePosition(axis, width, height) ==
    CASE axis.placement = "bottom" -> 0
      [] axis.placement = "top" -> height
      [] axis.placement = "left" -> width
      [] axis.placement = "right" -> 0
      [] OTHER -> 0

RenderFrameOld(frame, width, height) ==
    LET half_width == Rat(FrameStrokeWidth, 2)
        lo == RatSub(RatInt(0), half_width)
        edge(on, x1, y1, x2, y2) ==
            IF on THEN <<LineNode("frame", "line", 2, x1, y1, x2, y2, 0)>> ELSE <<>>
    IN  Done(<<GroupNode("frame", 1)>>
             \o edge(frame.top, lo, RatInt(0), RatAdd(RatInt(width), half_width), RatInt(0))
             \o edge(frame.bottom, lo, RatInt(height), RatAdd(RatInt(width), half_width), RatInt(height))
             \o edge(frame.left, RatInt(0), lo, RatInt(0), RatAdd(RatInt(height), half_width))
             \o edge(frame.right, RatInt(width), lo, RatInt(width), RatAdd(RatInt(height), half_width)))

DrawAxisLine(part, axis, axis_pos, width, height) ==
    IF Horizontal(axis)
    THEN Done(<<LineNode(part, "axis_line", 2, RatInt(0), RatInt(axis_pos), RatInt(width), RatInt(axis_pos), 0)>>)
    ELSE Done(<<LineNode(part, "axis_line", 2, RatInt(axis_pos), RatInt(0), RatInt(axis_pos), RatInt(height), 0)>>)

\* One iteration of the loop of _draw_tick_marks: norm is the result of
\* axis.transform(tick.value).
TickMark(part, kind, axis, norm, v, length, position, width, height, inward) ==
    LET toward(sign) == IF inward THEN position + sign * length
                        ELSE position - sign * length
    IN  IF ~norm.ok THEN Failed(<<>>, norm.err)
        ELSE IF Horizontal(axis)
        THEN LET x == RatMul(norm.val, RatInt(width))
                 y2 == IF axis.placement = "bottom" THEN toward(-1) ELSE toward(1)
             IN  Done(<<LineNode(part, kind, 2, x, RatInt(position), x, RatInt(y2), v)>>)
        ELSE LET y == RatSub(RatInt(height), RatMul(norm.val, RatInt(height)))
                 x2 == IF axis.placement = "left" THEN toward(1) ELSE toward(-1)
             IN  Done(<<LineNode(part, kind, 2, RatInt(position), y, RatInt(x2), y, v)>>)

\* The steps of a loop over the ticks, one step for each tick.
ForEachTick(ticks, step(_)) == Sequential([i \in 1..Len(ticks) |-> step(ticks[i])])

DrawTickMarks(part, kind, ticker, axis, length, position, width, height, inward) ==
    LET one(v) == TickMark(part, kind, axis, Transform(axis, v), v,
                           length, position, width, height, inward)
    IN  ForEachTick(GetTicks(ticker, axis.range), one)

\* One iteration of the loop of _draw_tick_labels.
TickLabel(part, axis, norm, v, axis_pos, width, height) ==
    IF ~norm.ok THEN Failed(<<>>, norm.err)
    ELSE IF Horizontal(axis)
    THEN LET x == RatMul(norm.val, RatInt(width))
             y == IF axis.placement = "bottom"
                  THEN axis_pos + TickLabelOffset + TickLabelFontSize
                  ELSE axis_pos - TickLabelOffset
         IN  Done(<<TextNode(part, "tick_label", 2, x, RatInt(y), v)>>)
    ELSE LET y == RatSub(RatInt(height), RatMul(norm.val, RatInt(height)))
             x == IF axis.placement = "left"
                  THEN axis_pos - TickLabelOffset
                  ELSE axis_pos + TickLabelOffset
         IN  Done(<<TextNode(part, "tick_label", 2, RatInt(x),
                             RatAdd(y, Rat(TickLabelFontSize, 3)), v)>>)

DrawTickLabels(part, ticker, axis, axis_pos, width, height) ==
    LET one(v) == TickLabel(part, axis, Transform(axis, v), v, axis_pos, width, height)
    IN  ForEachTick(GetTicks(ticker, axis.range), one)

DrawAxisLabel(part, axis, axis_pos, width, height) ==
    CASE axis.placement = "bottom" ->
            Done(<<TextNode(part, "axis_label", 2, Rat(width, 2), RatInt(axis_pos + AxisLabelOffset), 0)>>)
      [] axis.placement = "top" ->
            Done(<<TextNode(part, "axis_label", 2, Rat(width, 2), RatInt(axis_pos - AxisLabelOffset), 0)>>)
      [] axis.placement = "left" ->
            Done(<<TextNode(part, "axis_label", 2, RatInt(axis_pos - AxisLabelOffset), Rat(height, 2), 0)>>)
      [] axis.placement = "right" ->
            Done(<<TextNode(part, "axis_label", 2, RatInt(axis_pos + AxisLabelOffset), Rat(height, 2), 0)>>)
      [] OTHER -> Done(<<>>)


RenderAxisOld(part, axis, width, height) ==
    LET axis_pos == CalcAxisPosition(axis, width, height)
        opposite_pos == CalcOppositePosition(axis, width, height)
        has_main == axis.main_ticks.kind # "none"
        has_sub == axis.sub_ticks.kind # "none"
    IN  Sequential(<<
            Done(<<GroupNode(part, 1)>>),
            DrawAxisLine(part, axis, axis_pos, width, height),
            IF has_main
            THEN DrawTickMarks(part, "main_tick", axis.main_ticks, axis,
                               MainTickLength, axis_pos, width, height, TRUE)
            ELSE Done(<<>>),
            IF has_main /\ axis.mirror_main_ticks
            THEN DrawTickMarks(part, "main_tick_mirror", axis.main_ticks, axis,
                               MainTickLength, opposite_pos, width, height, FALSE)
            ELSE Done(<<>>),
            IF has_sub
            THEN DrawTickMarks(part, "sub_tick", axis.sub_ticks, axis,
                               SubTickLength, axis_pos, width, height, TRUE)
            ELSE Done(<<>>),
            IF has_sub /\ axis.mirror_sub_ticks
            THEN DrawTickMarks(part, "sub_tick_mirror", axis.sub_ticks, axis,
                               SubTickLength, opposite_pos, width, height, FALSE)
            ELSE Done(<<>>),
            IF axis.tick_labels.kind # "none"
            THEN DrawTickLabels(part, axis.tick_labels, axis, axis_pos, width, height)
            ELSE Done(<<>>),
            IF axis.label # ""
            THEN DrawAxisLabel(part, axis, axis_pos, width, height)
            ELSE Done(<<>>) >>)

\* _draw_marker draws one element for each known shape, nothing for "none".
DrawMarker(x, y, marker_type) ==
    IF marker_type \in {"circle", "square", "diamond", "triangle", "inverted_triangle"}
    THEN Done(<<TextNode("plot", "marker", 2, x, y, 0)>>)
    ELSE Done(<<>>)

\* One iteration of the loop of _render_plot: norm_x and norm_y are the
\* results of the two transforms.  Every point of the plot is drawn.
RenderPlotPoint(norm_x, norm_y, marker, width, height) ==
    IF ~norm_x.ok THEN Failed(<<>>, norm_x.err)
    ELSE IF ~norm_y.ok THEN Failed(<<>>, norm_y.err)
    ELSE DrawMarker(RatMul(norm_x.val, RatInt(width)),
                    RatSub(RatInt(height), RatMul(norm_y.val, RatInt(height))),
                    marker)

RenderPlotOld(plot, x_axis, y_axis, width, height) ==
    Sequential(<<Done(<<GroupNode("plot", 1)>>)>>
               \o [i \in 1..Len(plot.points) |->
                      RenderPlotPoint(Transform(x_axis, plot.points[i].x),
                                Transform(y_axis, plot.points[i].y),
                                plot.marker, width, height)])

RenderTitleOld(title, width, height) ==
    LET y == IF title.placement = "top" THEN -title.offset ELSE height + title.offset
    IN  Done(<<GroupNode("title", 1),
               TextNode("title", "text", 2, Rat(width, 2), RatInt(y), 0)>>)

\* The drawing steps of InkscapeRenderer.render after the root is chosen.
RenderBodyOld(graph, width, height) ==
    Sequential(
        <<IF graph.frame.present THEN RenderFrameOld(graph.frame, width, height) ELSE Done(<<>>),
          IF graph.x_axis.visible THEN RenderAxisOld("x_axis", graph.x_axis, width, height) ELSE Done(<<>>),
          IF graph.y_axis.visible THEN RenderAxisOld("y_axis", graph.y_axis, width, height) ELSE Done(<<>>)>>
        \o [i \in 1..Len(graph.plots) |->
                RenderPlotOld(graph.plots[i], graph.x_axis, graph.y_axis, width, height)]
        \o <<IF graph.title.present THEN RenderTitleOld(graph.title, width, height) ELSE Done(<<>>)>>)

---------------------------------------------------------------------------
(* Render requests                                                         *)

\* A request and its outcome: the handler, its input, whether it returned,
\* the root group it drew into (0: none), whether it created that group, and
\* the graph that was handed to the drawing steps (None: none was).
Request(handler, input, ok, err, root, created, graph) ==
    [handler |-> handler, input |-> input, ok |-> ok, err |-> err,
     root |-> root, created |-> created, graph |-> graph]

\* Python's None
None == "<None>"

\* The graph of a request: none, or the graph with the inverted flags
\* effect() puts on the root.
NoGraph == [built |-> FALSE]
TheGraph(graph, x_inverted, y_inverted) ==
    [built |-> TRUE, graph |-> graph,
     x_inverted |-> x_inverted, y_inverted |-> y_inverted]

NoReq == Request("none", <<>>, TRUE, "none", 0, FALSE, NoGraph)

RootGroup(n, id_base, label, nodes) ==
    [req |-> n, id_base |-> id_base, label |-> label, nodes |-> nodes]

\* graph.group_title is read by render, but Graph declares no such field:
\* the attribute is there only if the caller has set it.
Absent == "<absent>"

\* The root group of a render and what the drawing steps attached to it:
\* dest > 0 is an existing root group, dest = 0 the tuple (parent, x, y),
\* for which the root is created from graph.group_title.
RenderInto(graph, dest, body) ==
    IF dest > 0
    THEN /\ scene' = [scene EXCEPT ![dest].nodes = @ \o Stamp(body.nodes, 1)]
         /\ req' = Request("render", [graph |-> graph, dest |-> dest],
                           body.ok, body.err, dest, FALSE,
                           TheGraph(graph, FALSE, FALSE))
    ELSE IF graph.group_title = Absent
    THEN /\ scene' = scene
         /\ req' = Request("render", [graph |-> graph, dest |-> dest],
                           FALSE, "AttributeError", 0, FALSE, NoGraph)
    ELSE /\ scene' = Append(scene,
                RootGroup(1,
                    IF graph.group_title # ""
                    THEN "graph-" \o graph.group_title ELSE "graph",
                    "", Stamp(body.nodes, 1)))
         /\ req' = Request("render", [graph |-> graph, dest |-> dest],
                           body.ok, body.err, Len(scene) + 1, TRUE,
                           TheGraph(graph, FALSE, FALSE))

\* InkscapeRenderer.render(graph, destination, width, height)
InkscapeRendererRender(graph, dest, width, height) ==
    RenderInto(graph, dest, RenderBodyOld(graph, width, height))

---------------------------------------------------------------------------
(* The charts handed to InkscapeRenderer.render                            *)

Axis(label, range, normalizer, placement, ticks, mirror) ==
    [label |-> label, range |-> range, normalizer |-> normalizer,
     placement |-> placement, offset |-> 0, visible |-> TRUE,
     main_ticks |-> ticks.main, sub_ticks |-> ticks.sub,
     tick_labels |-> ticks.labels,
     mirror_main_ticks |-> mirror, mirror_sub_ticks |-> mirror]

TickSet(main, sub, labels) == [main |-> main, sub |-> sub, labels |-> labels]

LinearTickSets ==
    {TickSet(NoTicker, NoTicker, NoTicker),
     TickSet(StepTicker(Unit, 0), NoTicker, StepTicker(Unit, 0)),
     TickSet(StepTicker(0, 0), StepTicker(Unit \div 2, 0), NoTicker)}


XAxes ==
    {Axis(l, r, "linear", pl, t, m) :
        l \in {""},
        r \in {Range(0, U(MaxVal)), Range(U(2), U(2)), Range(U(MaxVal), 0)},
        pl \in {"bottom", "top"},
        t \in LinearTickSets, m \in BOOLEAN}
    \cup {Axis(l, r, "log", pl,
                TickSet(LogMainTicker(DefaultBase), LogSubTicker(DefaultBase),
                        LogMainTicker(DefaultBase)), m) :
        l \in {"x"}, r \in {Range(1, U(100)), Range(0, U(10))},
        pl \in {"bottom"}, m \in BOOLEAN}

YAxes ==
    {Axis("y", Range(0, U(MaxVal)), "linear", "left",
          TickSet(StepTicker(Unit, 0), NoTicker, StepTicker(Unit, 0)), FALSE),
     Axis("", Range(0, U(MaxVal)), "linear", "right",
          TickSet(StepTicker(Unit, 0), NoTicker, NoTicker), TRUE),
     Axis("", Range(Unit, Unit), "linear", "left",
          TickSet(NoTicker, NoTicker, NoTicker), FALSE)}


\* The series are the prefixes of this list: a point inside both ranges,
\* one right of the x range, one below the y range, one on the corner, and
\* one more inside.
AllPoints ==
    <<Point(Unit, Unit), Point(U(MaxVal + 1), Unit), Point(U(2), -Unit),
      Point(0, U(MaxVal)), Point(U(2), U(2))>>

Frame(present, top, bottom, left, right) ==
    [present |-> present, top |-> top, bottom |-> bottom,
     left |-> left, right |-> right]

TitleOffset == 30

Title(present, placement) ==
    [present |-> present, text |-> "A", placement |-> placement,
     offset |-> TitleOffset]

Graphs ==
    [x_axis : XAxes, y_axis : YAxes,
     plots : {<<>>} \cup {<<[points |-> SubSeq(AllPoints, 1, Min2(k, Len(AllPoints))),
                   marker |-> "circle"]>> : k \in 0..MaxPoints},
     frame : {Frame(FALSE, FALSE, FALSE, FALSE, FALSE),
              Frame(TRUE, FALSE, FALSE, FALSE, FALSE),
              Frame(TRUE, TRUE, TRUE, TRUE, TRUE),
              Frame(TRUE, TRUE, FALSE, TRUE, FALSE)},
     title : {Title(FALSE, "top"), Title(TRUE, "top")},
     group_title : {Absent, "", "A"}]

---------------------------------------------------------------------------
(* The chart model main.py builds: Interval and the scales.  main.py       *)
(* imports them from graph, which does not define them; they follow their  *)
(* documented contract.                                                    *)

\* Interval(min, max): the invariant min <= max, construction fails otherwise
Interval(lo, hi) ==
    IF lo > hi THEN Raise("ValueError") ELSE Ok([min |-> lo, max |-> hi])

\* interval.contains(v)
IntervalContains(i, v) == i.min <= v /\ v <= i.max

\* LinearScale.normalize: (value - min) / length, 0.0 if the length is 0;
\* the value is not clamped.
LinearScaleNormalize(i, value) ==
    IF i.max - i.min = 0
    THEN Ok(RatInt(0))
    ELSE Ok(Rat(value - i.min, i.max - i.min))

\* The quotient of LogScale.normalize once its arguments are positive.
LogQuotient(lv, lmin, lmax) ==
    IF lmax - lmin = 0 THEN Ok(RatInt(0)) ELSE Ok(Rat(lv - lmin, lmax - lmin))

\* LogScale.normalize: fails if value, min or max is not positive; 0.0 if
\* the denominator is 0.
LogScaleNormalize(i, value) ==
    IF value <= 0 \/ i.min <= 0 \/ i.max <= 0
    THEN Raise("DomainError")
    ELSE LogQuotient(LogMilli(value), LogMilli(i.min), LogMilli(i.max))

\* axis.normalize(value): the scale of the axis over its interval
AxisNormalize(axis, value) ==
    IF axis.scale = "linear"
    THEN LinearScaleNormalize(axis.interval, value)
    ELSE LogScaleNormalize(axis.interval, value)

---------------------------------------------------------------------------
(* main.py: building the graph from the options                            *)

\* normalize_text: the stripped text, None if nothing is left of it.
\* " " stands for a text of white space only.
NormalizeText(s) == IF s \in {"", " "} THEN None ELSE s

\* float(s) for the texts given as logarithmic bounds; what is not a
\* number raises ValueError.
Float(s) ==
    CASE s = "0.1" -> Ok(Unit \div 10)
      [] s = "1" -> Ok(U(1))
      [] s = "10" -> Ok(U(10))
      [] s = "100" -> Ok(U(100))
      [] s = "0" -> Ok(0)
      [] s = "-1" -> Ok(-U(1))
      [] OTHER -> Raise("ValueError")

\* The result of _build_axis: the pair (axis, inverted), or the exception.
Built(axis, inverted) ==
    [ok |-> TRUE, err |-> "none", axis |-> axis, inverted |-> inverted]
NotBuilt(err) ==
    [ok |-> FALSE, err |-> err, axis |-> None, inverted |-> FALSE]

\* Axis(label=normalize_text(label), interval=Interval(...), _scale=scale)
\* (lines 500-506); interval is the result of the Interval constructor.
NewAxis(label, interval, scale, inverted) ==
    IF ~interval.ok THEN NotBuilt(interval.err)
    ELSE Built([label |-> NormalizeText(label), interval |-> interval.val,
                scale |-> scale], inverted)

\* Variant: the bounds are handed to Interval as they were given.
BuildWithoutSwap(min_val, max_val, scale, label) ==
    NewAxis(label, Interval(min_val, max_val), scale, min_val > max_val)

\* Lines 496-506 once both bounds are numbers.
SwapAndBuild(min_val, max_val, scale, label) ==
    IF min_val > max_val
    THEN NewAxis(label, Interval(max_val, min_val), scale, TRUE)
    ELSE NewAxis(label, Interval(min_val, max_val), scale, FALSE)

\* Lines 492-494: both texts are converted before anything is built.
ParsedBounds(lo, hi) ==
    IF ~lo.ok THEN Raise(lo.err)
    ELSE IF ~hi.ok THEN Raise(hi.err)
    ELSE Ok([min |-> lo.val, max |-> hi.val])

\* RenderGraphExtension._build_axis
BuildAxis(scale_mode, linear_mode_key, linear_min, linear_max,
          log_min, log_max, label) ==
    IF scale_mode = linear_mode_key
    THEN SwapAndBuild(linear_min, linear_max, "linear", label)
    ELSE IF ~ParsedBounds(Float(log_min), Float(log_max)).ok
    THEN NotBuilt(ParsedBounds(Float(log_min), Float(log_max)).err)
    ELSE SwapAndBuild(Float(log_min).val, Float(log_max).val, "log", label)

\* A line of the data text: the cells between its delimiters; a cell is a
\* number, a text float() rejects, or empty.  comment: the first text of
\* the line starts with "#".  A line of no cells is empty.
Cell(is_number, val) == [is_number |-> is_number, val |-> val, empty |-> FALSE]
EmptyCell == [is_number |-> FALSE, val |-> 0, empty |-> TRUE]
DataLine(comment, cells) == [comment |-> comment, cells |-> cells]

\* line.strip() on the cells of a line whose delimiter is white space: the
\* empty cells at both ends go with their delimiters.
StripCells(cells) ==
    LET full == {i \in 1..Len(cells) : ~cells[i].empty}
    IN  IF full = {} THEN <<>>
        ELSE SubSeq(cells, CHOOSE i \in full : \A k \in full : i <= k,
                           CHOOSE i \in full : \A k \in full : i >= k)

\* Lines 59-77: the columns of the stripped line.  An unknown delimiter is
\* the tab; split() on spaces takes a run of spaces as one delimiter.
SplitLine(cells, delimiter) ==
    IF delimiter = "space" THEN SelectSeq(cells, LAMBDA c : ~c.empty)
    ELSE IF delimiter \in {"comma", "semicolon"} THEN cells
    ELSE StripCells(cells)

\* parse_data: the lines that are not blank or comments and hold two
\* numbers in the chosen columns (0-based), in order.
RECURSIVE ParseData(_, _, _, _)
ParseData(lines, x_column, y_column, delimiter) ==
    IF lines = <<>> THEN <<>>
    ELSE LET line == Head(lines)
             cols == SplitLine(line.cells, delimiter)
             rest == ParseData(Tail(lines), x_column, y_column, delimiter)
         IN  IF line.comment \/ StripCells(line.cells) = <<>> THEN rest
             ELSE IF Len(cols) <= Max2(x_column, y_column) THEN rest
             ELSE IF ~cols[x_column + 1].is_number THEN rest
             ELSE IF ~cols[y_column + 1].is_number THEN rest
             ELSE <<[x |-> cols[x_column + 1].val,
                     y |-> cols[y_column + 1].val]>> \o rest

\* Series(name=None, xs=x_data, ys=y_data)
Series(points) ==
    [xs |-> [i \in 1..Len(points) |-> points[i].x],
     ys |-> [i \in 1..Len(points) |-> points[i].y]]

\* The result of _build_graph: (graph, x_inverted, y_inverted), or the
\* exception of the first step that raised.
GraphOf(opts, x, y) ==
    IF ~x.ok THEN [ok |-> FALSE, err |-> x.err, graph |-> None,
                   x_inverted |-> FALSE, y_inverted |-> FALSE]
    ELSE IF ~y.ok THEN [ok |-> FALSE, err |-> y.err, graph |-> None,
                        x_inverted |-> FALSE, y_inverted |-> FALSE]
    ELSE [ok |-> TRUE, err |-> "none",
          graph |-> [title |-> NormalizeText(opts.title_text),
                     x_axis |-> x.axis, y_axis |-> y.axis,
                     series |-> Series(ParseData(opts.data_text,
                                                 opts.x_column - 1,
                                                 opts.y_column - 1,
                                                 opts.data_delim))],
          x_inverted |-> x.inverted, y_inverted |-> y.inverted]

\* RenderGraphExtension._build_graph
BuildGraph(opts) ==
    GraphOf(opts,
        BuildAxis(opts.x_scale, "x_axis_linear",
                  opts.x_axis_linear_min, opts.x_axis_linear_max,
                  opts.x_axis_log_min, opts.x_axis_log_max, opts.x_axis_label),
        BuildAxis(opts.y_scale, "y_axis_linear",
                  opts.y_axis_linear_min, opts.y_axis_linear_max,
                  opts.y_axis_log_min, opts.y_axis_log_max, opts.y_axis_label))

---------------------------------------------------------------------------
(* renderer/renderer.py: GraphRoot and the frame and title renderers       *)

RatNeg(a) == [n |-> -a.n, d |-> a.d]
RatHalf(a) == Rat(a.n, 2 * a.d)

\* Variant: y grows with the normalized value.
MapYDownward(normalized_y, height) == RatMul(normalized_y, height)

\* GraphRoot.map_x, GraphRoot.map_y
MapX(normalized_x, width) == RatMul(normalized_x, width)
MapY(normalized_y, height) == RatMul(RatSub(RatInt(1), normalized_y), height)

\* A part builds its group detached and adds it to the root as its last
\* statement: if a step raised, nothing of the part is in the scene.
Detached(group, steps) ==
    IF steps.ok THEN Done(<<group>> \o steps.nodes) ELSE Failed(<<>>, steps.err)

\* FrameRenderer.render
FrameRendererRender(fr, width, height) ==
    LET half == RatHalf(fr.stroke_width)
        lo == RatNeg(half)
        edge(on, x1, y1, x2, y2) ==
            IF on THEN <<LineNode("frame", "line", 2, x1, y1, x2, y2, 0)>> ELSE <<>>
    IN  IF ~(fr.top \/ fr.bottom \/ fr.left \/ fr.right) THEN Done(<<>>)
        ELSE Done(<<GroupNode("frame", 1)>>
                  \o edge(fr.top, lo, RatInt(0), RatAdd(width, half), RatInt(0))
                  \o edge(fr.bottom, lo, height, RatAdd(width, half), height)
                  \o edge(fr.left, RatInt(0), lo, RatInt(0), RatAdd(height, half))
                  \o edge(fr.right, width, lo, width, RatAdd(height, half)))

\* TitleRenderer.render
TitleRendererRender(tr, graph, width, height) ==
    IF graph.title = None THEN Done(<<>>)
    ELSE Done(<<TextNode("title", "text", 1, RatHalf(width),
                         IF tr.placement = "top" THEN RatNeg(tr.pos_offset)
                         ELSE RatAdd(height, tr.pos_offset), 0)>>)

---------------------------------------------------------------------------
(* renderer/axis.py: the coordinate mappers, the generators of the parts   *)
(* of an axis, and AxisRenderer.  A mapper is its placement and offset.    *)


\* _get_axis
GetAxis(m, graph) == IF Horizontal(m) THEN graph.x_axis ELSE graph.y_axis

\* _get_parallel_pos
GetParallelPos(m, norm_val, width, height) ==
    IF Horizontal(m) THEN MapX(norm_val, width) ELSE MapY(norm_val, height)

\* _perpendicular_pos
PerpendicularPos(m, width, height) ==
    CASE m.placement = "top" -> RatNeg(m.pos_offset)
      [] m.placement = "bottom" -> RatAdd(height, m.pos_offset)
      [] m.placement = "left" -> RatNeg(m.pos_offset)
      [] m.placement = "right" -> RatAdd(width, m.pos_offset)

\* Variant: top and left add, bottom and right subtract.
PerpendicularOffsetSwapped(m, base, offset) ==
    IF m.placement \in {"top", "left"} THEN RatAdd(base, offset)
    ELSE RatSub(base, offset)

\* _perpendicular_offset
PerpendicularOffset(m, base, offset) ==
    IF m.placement \in {"top", "left"} THEN RatSub(base, offset)
    ELSE RatAdd(base, offset)

\* _combine_coords
CombineCoords(m, parallel, perpendicular) ==
    IF Horizontal(m) THEN Point(parallel, perpendicular) ELSE Point(perpendicular, parallel)

\* Lines 214-217: the positions of the raw values; norm_values are their
\* normalizations, the first one that raised ends the call.
PositionsOf(m, raw_values, norm_values, width, height) ==
    IF \E i \in 1..Len(norm_values) : ~norm_values[i].ok
    THEN [ok |-> FALSE, items |-> <<>>,
          err |-> norm_values[CHOOSE i \in 1..Len(norm_values) :
                        /\ ~norm_values[i].ok
                        /\ \A j \in 1..(i - 1) : norm_values[j].ok].err]
    ELSE [ok |-> TRUE, err |-> "none",
          items |-> [i \in 1..Len(raw_values) |->
                        [value |-> raw_values[i],
                         pos |-> GetParallelPos(m, norm_values[i].val, width, height)]]]

NormalizeAll(axis, raw_values) ==
    [i \in 1..Len(raw_values) |-> AxisNormalize(axis, raw_values[i])]

\* _get_tick_positions
GetTickPositions(graph, m, ticker, width, height) ==
    PositionsOf(m, GetTicks(ticker, GetAxis(m, graph).interval),
                NormalizeAll(GetAxis(m, graph),
                             GetTicks(ticker, GetAxis(m, graph).interval)),
                width, height)

\* AxisLineGenerator.generate
AxisLineGenerate(part, m, width, height) ==
    LET prep == PerpendicularPos(m, width, height)
        start == CombineCoords(m, GetParallelPos(m, RatInt(0), width, height), prep)
        end == CombineCoords(m, GetParallelPos(m, RatInt(1), width, height), prep)
    IN  Done(<<LineNode(part, "axis_line", 2, start.x, start.y, end.x, end.y, 0)>>)

\* The group of TickLinesGenerator.generate from the tick positions.
TickLines(part, kind, gen, m, positions, width, height) ==
    LET prep_start == PerpendicularPos(m, width, height)
        prep_end == PerpendicularOffset(m, prep_start, RatNeg(gen.length))
        line(item) ==
            LET start == CombineCoords(m, item.pos, prep_start)
                end == CombineCoords(m, item.pos, prep_end)
            IN  LineNode(part, kind, 3, start.x, start.y, end.x, end.y, item.value)
    IN  IF ~positions.ok THEN Failed(<<>>, positions.err)
        ELSE Done(<<Node(part, "ticklines", 2, Point(RatInt(0), RatInt(0)), Point(RatInt(0), RatInt(0)), 0)>>
                  \o [i \in 1..Len(positions.items) |-> line(positions.items[i])])

\* TickLinesGenerator.generate
TickLinesGenerate(part, kind, gen, graph, m, width, height) ==
    TickLines(part, kind, gen, m,
              GetTickPositions(graph, m, gen.ticker, width, height),
              width, height)

\* The group of TickLabelsGenerator.generate from the tick positions.
TickLabels(part, gen, m, positions, width, height) ==
    LET base == PerpendicularPos(m, width, height)
        prep == PerpendicularOffset(m, base, gen.pos_offset)
        text(item) ==
            LET at == CombineCoords(m, item.pos, prep)
            IN  TextNode(part, "tick_label", 3, at.x, at.y, item.value)
    IN  IF ~positions.ok THEN Failed(<<>>, positions.err)
        ELSE Done(<<Node(part, "ticklabels", 2, Point(RatInt(0), RatInt(0)), Point(RatInt(0), RatInt(0)), 0)>>
                  \o [i \in 1..Len(positions.items) |-> text(positions.items[i])])

\* TickLabelsGenerator.generate
TickLabelsGenerate(part, gen, graph, m, width, height) ==
    TickLabels(part, gen, m,
               GetTickPositions(graph, m, gen.ticker, width, height),
               width, height)

\* LabelGenerator.generate
LabelGenerate(part, gen, graph, m, width, height) ==
    LET axis == GetAxis(m, graph)
        offset == RatMul(gen.font_size,
                           \* line 342: 3.2 for the y axis, 1.5 for the x axis
                           IF Horizontal(m) THEN Rat(15, 10) ELSE Rat(32, 10))
        at == CombineCoords(m, GetParallelPos(m, Rat(1, 2), width, height),
                  PerpendicularOffset(m, PerpendicularPos(m, width, height), offset))
    IN  IF axis.label \in {None, ""}
        THEN Done(<<Node(part, "axislabel_empty", 2, Point(RatInt(0), RatInt(0)), Point(RatInt(0), RatInt(0)), 0)>>)
        ELSE Done(<<TextNode(part, "axis_label", 2, at.x, at.y, 0)>>)

\* Variant: the tick labels are generated before the tick lines.
AxisRendererLabelsFirst(ar, graph, width, height) ==
    Detached(GroupNode(ar.part, 1),
        Sequential(<<
            IF ar.line.present
            THEN AxisLineGenerate(ar.part, ar.coord_mapper, width, height)
            ELSE Done(<<>>),
            IF ar.tick_labels.present
            THEN TickLabelsGenerate(ar.part, ar.tick_labels,
                                    graph, ar.coord_mapper, width, height)
            ELSE Done(<<>>),
            IF ar.main_tick_lines.present
            THEN TickLinesGenerate(ar.part, "main_tick", ar.main_tick_lines,
                                   graph, ar.coord_mapper, width, height)
            ELSE Done(<<>>),
            IF ar.sub_tick_lines.present
            THEN TickLinesGenerate(ar.part, "sub_tick", ar.sub_tick_lines,
                                   graph, ar.coord_mapper, width, height)
            ELSE Done(<<>>),
            IF ar.axis_label.present
            THEN LabelGenerate(ar.part, ar.axis_label,
                               graph, ar.coord_mapper, width, height)
            ELSE Done(<<>>) >>))

\* AxisRenderer.render
AxisRendererRender(ar, graph, width, height) ==
    Detached(GroupNode(ar.part, 1),
        Sequential(<<
            IF ar.line.present
            THEN AxisLineGenerate(ar.part, ar.coord_mapper, width, height)
            ELSE Done(<<>>),
            IF ar.main_tick_lines.present
            THEN TickLinesGenerate(ar.part, "main_tick", ar.main_tick_lines,
                                   graph, ar.coord_mapper, width, height)
            ELSE Done(<<>>),
            IF ar.sub_tick_lines.present
            THEN TickLinesGenerate(ar.part, "sub_tick", ar.sub_tick_lines,
                                   graph, ar.coord_mapper, width, height)
            ELSE Done(<<>>),
            IF ar.tick_labels.present
            THEN TickLabelsGenerate(ar.part, ar.tick_labels,
                                    graph, ar.coord_mapper, width, height)
            ELSE Done(<<>>),
            IF ar.axis_label.present
            THEN LabelGenerate(ar.part, ar.axis_label,
                               graph, ar.coord_mapper, width, height)
            ELSE Done(<<>>) >>))

---------------------------------------------------------------------------
(* renderer/plots.py: PlotsRenderer                                        *)

MarkerShapes == {"circle", "square", "diamond", "triangle", "inverted_triangle"}

\* create_marker_generator: the generator of a known shape, ValueError for
\* any other key.
CreateMarkerGenerator(shape, size, stroke_width) ==
    IF shape \in MarkerShapes
    THEN Ok([shape |-> shape, size |-> size, stroke_width |-> stroke_width])
    ELSE Raise("ValueError")

\* marker.generate(x, y): one element centred at (x, y)
MarkerGenerate(marker, x, y) == TextNode("plot", "marker", 2, x, y, 0)

\* Variant: the two coordinates change places.
PlotMarkerTransposed(marker, x_norm, y_norm, width, height) ==
    IF ~x_norm.ok THEN Failed(<<>>, x_norm.err)
    ELSE IF ~y_norm.ok THEN Failed(<<>>, y_norm.err)
    ELSE Done(<<MarkerGenerate(marker, MapY(y_norm.val, height),
                               MapX(x_norm.val, width))>>)

\* The body of the loop of PlotsRenderer.render once the point is known to
\* lie in both intervals: x_norm and y_norm are its normalizations.
PlotMarker(marker, x_norm, y_norm, width, height) ==
    IF ~x_norm.ok THEN Failed(<<>>, x_norm.err)
    ELSE IF ~y_norm.ok THEN Failed(<<>>, y_norm.err)
    ELSE Done(<<MarkerGenerate(marker, MapX(x_norm.val, width),
                               MapY(y_norm.val, height))>>)

\* Variant: the point is drawn wherever it lies.
PlotPointUnfiltered(marker, graph, x_val, y_val, width, height) ==
    PlotMarker(marker, AxisNormalize(graph.x_axis, x_val),
               AxisNormalize(graph.y_axis, y_val), width, height)

\* One iteration of the loop of PlotsRenderer.render (lines 174-190)
PlotPoint(marker, graph, x_val, y_val, width, height) ==
    IF ~IntervalContains(graph.x_axis.interval, x_val) THEN Done(<<>>)
    ELSE IF ~IntervalContains(graph.y_axis.interval, y_val) THEN Done(<<>>)
    ELSE PlotMarker(marker, AxisNormalize(graph.x_axis, x_val),
                    AxisNormalize(graph.y_axis, y_val), width, height)

\* PlotsRenderer.render
PlotsRendererRender(pr, graph, width, height) ==
    Detached(GroupNode("plot", 1),
        Sequential([i \in 1..Min2(Len(graph.series.xs), Len(graph.series.ys)) |->
            PlotPoint(pr.marker, graph, graph.series.xs[i], graph.series.ys[i],
                      width, height)]))

---------------------------------------------------------------------------
(* renderer/renderer.py: the pipeline                                      *)

\* part.render(graph, root), by the class of the part
PartRender(part, graph, width, height) ==
    CASE part.kind = "frame" -> FrameRendererRender(part, width, height)
      [] part.kind = "title" -> TitleRendererRender(part, graph, width, height)
      [] part.kind = "axis" -> AxisRendererRender(part, graph, width, height)
      [] part.kind = "plots" -> PlotsRendererRender(part, graph, width, height)

\* render_graph_parts
RenderGraphParts(graph, width, height, parts) ==
    Sequential([i \in 1..Len(parts) |-> PartRender(parts[i], graph, width, height)])

---------------------------------------------------------------------------
(* main.py: the part renderers effect() builds from the options            *)

\* _px and _pt: the document's user unit is taken to be the pixel, so that
\* a length in px is itself and one in pt is 4/3 of it.
Px(value) == RatInt(value)
Pt(value) == Rat(4 * value, 3)

\* An optional generator or renderer that is None.
Nothing == [present |-> FALSE]

\* _build_frame_renderer
BuildFrameRenderer(opts) ==
    IF ~opts.render_border THEN Nothing
    ELSE [present |-> TRUE, kind |-> "frame",
          top |-> opts.frame_top, bottom |-> opts.frame_bottom,
          left |-> opts.frame_left, right |-> opts.frame_right,
          stroke_width |-> Px(opts.frame_stroke_width)]

\* _build_title_renderer
BuildTitleRenderer(opts) ==
    IF ~opts.render_title THEN Nothing
    ELSE IF NormalizeText(opts.title_text) = None THEN Nothing
    ELSE [present |-> TRUE, kind |-> "title",
          placement |-> IF opts.title_placement \in {"top", "bottom"}
                        THEN opts.title_placement ELSE "top",
          pos_offset |-> Px(opts.title_pos),
          font_size |-> Pt(opts.title_font_size)]

\* _build_plots_renderer: None, the renderer, or the exception of
\* create_marker_generator
BuildPlotsRenderer(opts) ==
    IF ~opts.render_plot THEN Ok(Nothing)
    ELSE IF opts.marker_shape = "none" THEN Ok(Nothing)
    ELSE IF ~CreateMarkerGenerator(opts.marker_shape, Px(opts.marker_size),
                                   Px(opts.marker_stroke_width)).ok
    THEN Raise("ValueError")
    ELSE Ok([present |-> TRUE, kind |-> "plots",
             marker |-> CreateMarkerGenerator(opts.marker_shape,
                            Px(opts.marker_size),
                            Px(opts.marker_stroke_width)).val])

\* TickLinesGenerator(ticker, length, stroke_width)
TickLinesGenerator(ticker, length, stroke_width) ==
    [present |-> TRUE, ticker |-> ticker, length |-> length,
     stroke_width |-> stroke_width]

\* TickLabelsGenerator(ticker, font_size, pos_offset, formatter)
TickLabelsGenerator(ticker, font_size, pos_offset, formatter) ==
    [present |-> TRUE, ticker |-> ticker, font_size |-> font_size,
     pos_offset |-> pos_offset, formatter |-> formatter]

\* The options of one axis, as the two branches of lines 335-384 pick them.
AxisOptions(opts, axis) ==
    IF axis = "x"
    THEN [render |-> opts.render_x_axis, placement |-> opts.x_axis_placement,
          pos |-> opts.x_axis_pos, first |-> "bottom", second |-> "top",
          scale_mode |-> opts.x_scale,
          maintick_step |-> opts.x_linear_maintick_step,
          maintick_offset |-> opts.x_linear_maintick_offset,
          subtick_step |-> opts.x_linear_subtick_step,
          subtick_offset |-> opts.x_linear_subtick_offset,
          numtick_step |-> opts.x_linear_numtick_step,
          numtick_offset |-> opts.x_linear_numtick_offset,
          log_maintick_visible |-> opts.x_log_maintick_visible,
          log_subtick_visible |-> opts.x_log_subtick_visible,
          log_numtick_visible |-> opts.x_log_numtick_visible,
          label |-> opts.x_axis_label]
    ELSE [render |-> opts.render_y_axis, placement |-> opts.y_axis_placement,
          pos |-> opts.y_axis_pos, first |-> "left", second |-> "right",
          scale_mode |-> opts.y_scale,
          maintick_step |-> opts.y_linear_maintick_step,
          maintick_offset |-> opts.y_linear_maintick_offset,
          subtick_step |-> opts.y_linear_subtick_step,
          subtick_offset |-> opts.y_linear_subtick_offset,
          numtick_step |-> opts.y_linear_numtick_step,
          numtick_offset |-> opts.y_linear_numtick_offset,
          log_maintick_visible |-> opts.y_log_maintick_visible,
          log_subtick_visible |-> opts.y_log_subtick_visible,
          log_numtick_visible |-> opts.y_log_numtick_visible,
          label |-> opts.y_axis_label]

\* scale_mode.endswith("_linear"), for the scale modes of the model
EndsWithLinear(scale_mode) == scale_mode \in {"x_axis_linear", "y_axis_linear"}

\* Lines 386-462: the renderer of an axis from its options a.
AxisRendererOf(opts, part, a) ==
    LET linear == EndsWithLinear(a.scale_mode)
        main_length == Px(opts.maintick_length)
        sub_length == Px(opts.subtick_length)
        stroke == Px(opts.tick_stroke_width)
        font_size == Pt(opts.tick_label_font_size)
        label_offset == RatMul(Pt(opts.tick_label_font_size), Rat(6, 10))
    IN  [present |-> TRUE, kind |-> "axis", part |-> part,
         coord_mapper |->
            [placement |-> IF a.placement = a.first THEN a.first ELSE a.second,
             pos_offset |-> Px(a.pos)],
         line |-> [present |-> TRUE, stroke_width |-> Px(opts.frame_stroke_width)],
         main_tick_lines |->
            IF linear
            THEN IF a.maintick_step > 0
                 THEN TickLinesGenerator(StepTicker(a.maintick_step, a.maintick_offset),
                                         main_length, stroke)
                 ELSE Nothing
            ELSE IF a.log_maintick_visible
                 THEN TickLinesGenerator(LogMainTicker(DefaultBase), main_length, stroke)
                 ELSE Nothing,
         sub_tick_lines |->
            IF linear
            THEN IF a.subtick_step > 0
                 THEN TickLinesGenerator(StepTicker(a.subtick_step, a.subtick_offset),
                                         sub_length, stroke)
                 ELSE Nothing
            ELSE IF a.log_subtick_visible
                 THEN TickLinesGenerator(LogSubTicker(DefaultBase), sub_length, stroke)
                 ELSE Nothing,
         tick_labels |->
            IF linear
            THEN IF a.numtick_step > 0
                 THEN TickLabelsGenerator(StepTicker(a.numtick_step, a.numtick_offset),
                                          font_size, label_offset, "basic")
                 ELSE Nothing
            ELSE IF a.log_numtick_visible
                 THEN TickLabelsGenerator(LogMainTicker(DefaultBase),
                                          font_size, label_offset, "scientific")
                 ELSE Nothing,
         axis_label |->
            IF NormalizeText(a.label) # None
            THEN [present |-> TRUE, font_size |-> Pt(opts.axis_label_font_size)]
            ELSE Nothing]

\* _build_axis_renderer
BuildAxisRenderer(opts, axis) ==
    IF ~AxisOptions(opts, axis).render THEN Nothing
    ELSE AxisRendererOf(opts, IF axis = "x" THEN "x_axis" ELSE "y_axis",
                        AxisOptions(opts, axis))

\* The renderers that are not None, in order.
RECURSIVE Present(_)
Present(rs) ==
    IF rs = <<>> THEN <<>>
    ELSE IF Head(rs).present THEN <<Head(rs)>> \o Present(Tail(rs))
    ELSE Present(Tail(rs))

\* Lines 211-231: renderer_parts, or the exception raised while the plot
\* renderer was built.
RendererParts(opts, plot) ==
    IF ~plot.ok THEN [ok |-> FALSE, err |-> plot.err, parts |-> <<>>]
    ELSE [ok |-> TRUE, err |-> "none",
          parts |-> Present(<<BuildFrameRenderer(opts), BuildTitleRenderer(opts),
                              BuildAxisRenderer(opts, "x"),
                              BuildAxisRenderer(opts, "y"), plot.val>>)]

---------------------------------------------------------------------------
(* main.py: RenderGraphExtension.effect                                    *)

\* re.sub(r'[^\w\s\-]', '_', title) for the titles of the model
Sanitize(title) == IF title = "a/b" THEN "a_b" ELSE title

\* Lines 254-259: the label of the root group of a chart with this title
TargetLabel(opts) ==
    IF NormalizeText(opts.title_text) = None THEN None
    ELSE "graph_" \o Sanitize(NormalizeText(opts.title_text))

\* layer.xpath("./svg:g[@inkscape:label=...]"): the positions of the root
\* groups with that label
FoundGroups(sc, label) == {i \in 1..Len(sc) : sc[i].label = label}

\* The group a new root starts as (lines 272-280): labelled only if
\* grouping by title is asked for.
NewRootGroup(opts) ==
    RootGroup(1, "graph",
              IF opts.group_by_title /\ TargetLabel(opts) # None
              THEN TargetLabel(opts) ELSE "",
              <<>>)

\* Variant: the root group is emptied before the parts draw into it.
EffectDrawnCleared(opts, sc, r, created, built, drawn) ==
    /\ scene' = [sc EXCEPT ![r].nodes = Stamp(drawn.nodes, 1)]
    /\ req' = Request("effect", opts, drawn.ok, drawn.err, r, created,
                      TheGraph(built.graph, built.x_inverted, built.y_inverted))


\* Line 233 and the end of effect: the parts drew into the root group r of
\* the scene sc.
EffectDrawn(opts, sc, r, created, built, drawn) ==
    /\ scene' = [sc EXCEPT ![r].nodes = @ \o Stamp(drawn.nodes, 1)]
    /\ req' = Request("effect", opts, drawn.ok, drawn.err, r, created,
                      TheGraph(built.graph, built.x_inverted, built.y_inverted))

\* Lines 211-233, the graph being built
EffectRender(opts, sc, r, created, built, parts) ==
    IF ~parts.ok
    THEN /\ scene' = sc
         /\ req' = Request("effect", opts, FALSE, parts.err, r, created, NoGraph)
    ELSE EffectDrawn(opts, sc, r, created, built,
             RenderGraphParts(built.graph, Px(opts.plot_width),
                              Px(opts.plot_height), parts.parts))

\* Lines 206-233, the root group r being in the scene sc
EffectBuild(opts, sc, r, created, built) ==
    IF ~built.ok
    THEN /\ scene' = sc
         /\ req' = Request("effect", opts, FALSE, built.err, r, created, NoGraph)
    ELSE EffectRender(opts, sc, r, created, built,
                      RendererParts(opts, BuildPlotsRenderer(opts)))

\* effect(): _create_root_for_page (an existing group with the target label,
\* or a new group added to the layer; None for a page that does not
\* exist), then the graph, the part renderers and the pipeline.
EffectOn(opts) ==
    IF opts.page - 1 \notin 0..(NumPages - 1)
    THEN /\ scene' = scene
         /\ req' = Request("effect", opts, TRUE, "none", 0, FALSE, NoGraph)
    ELSE IF /\ opts.group_by_title
            /\ TargetLabel(opts) # None
            /\ FoundGroups(scene, TargetLabel(opts)) # {}
    THEN EffectBuild(opts, scene,
                     CHOOSE i \in FoundGroups(scene, TargetLabel(opts)) :
                        \A j \in FoundGroups(scene, TargetLabel(opts)) : i <= j,
                     FALSE, BuildGraph(opts))
    ELSE EffectBuild(opts, Append(scene, NewRootGroup(opts)), Len(scene) + 1,
                     TRUE, BuildGraph(opts))

---------------------------------------------------------------------------
(* The options handed to effect()                                          *)

\* The lines of the data text: a point inside the ranges, one right of the
\* linear x range, a comment, one below the y range, a line with a cell
\* that is no number, a line with one cell only, one more point inside.
AllLines ==
    <<DataLine(FALSE, <<Cell(TRUE, Unit), Cell(TRUE, Unit)>>),
      DataLine(FALSE, <<Cell(TRUE, U(MaxVal + 1)), Cell(TRUE, Unit)>>),
      DataLine(TRUE, <<Cell(FALSE, 0)>>),
      DataLine(FALSE, <<Cell(TRUE, U(2)), Cell(TRUE, -Unit)>>),
      DataLine(FALSE, <<Cell(TRUE, U(2)), Cell(FALSE, 0)>>),
      DataLine(FALSE, <<Cell(TRUE, U(2))>>),
      DataLine(FALSE, <<Cell(TRUE, U(2)), Cell(TRUE, U(2))>>)>>

DataTexts ==
    {SubSeq(AllLines, 1, Min2(k, Len(AllLines))) : k \in {0, MaxPoints, MaxPoints + 4}}

\* The defaults of add_arguments, with the data ranges of the model.
DefaultOptions ==
    [data_text |-> <<>>, data_delim |-> "tab",
     x_scale |-> "x_axis_linear",
     x_axis_linear_min |-> 0, x_axis_linear_max |-> U(MaxVal),
     x_linear_maintick_step |-> Unit, x_linear_maintick_offset |-> 0,
     x_linear_subtick_step |-> Unit, x_linear_subtick_offset |-> 0,
     x_linear_numtick_step |-> Unit, x_linear_numtick_offset |-> 0,
     x_axis_log_min |-> "0.1", x_axis_log_max |-> "100",
     x_log_maintick_visible |-> TRUE, x_log_subtick_visible |-> TRUE,
     x_log_numtick_visible |-> TRUE,
     x_linear_tick_mirror |-> FALSE, x_log_tick_mirror |-> FALSE,
     x_axis_label |-> "", x_axis_placement |-> "bottom", x_axis_pos |-> 0,
     y_scale |-> "y_axis_linear",
     y_axis_linear_min |-> 0, y_axis_linear_max |-> U(MaxVal),
     y_linear_maintick_step |-> Unit, y_linear_maintick_offset |-> 0,
     y_linear_subtick_step |-> Unit, y_linear_subtick_offset |-> 0,
     y_linear_numtick_step |-> Unit, y_linear_numtick_offset |-> 0,
     y_axis_log_min |-> "0.1", y_axis_log_max |-> "100",
     y_log_maintick_visible |-> TRUE, y_log_subtick_visible |-> TRUE,
     y_log_numtick_visible |-> TRUE,
     y_linear_tick_mirror |-> FALSE, y_log_tick_mirror |-> FALSE,
     y_axis_label |-> "", y_axis_placement |-> "left", y_axis_pos |-> 0,
     x_column |-> 1, y_column |-> 2,
     marker_shape |-> "circle", marker_size |-> 12, marker_stroke_width |-> 1,
     title_text |-> "", title_placement |-> "top", title_pos |-> 84,
     frame_top |-> TRUE, frame_bottom |-> TRUE,
     frame_left |-> TRUE, frame_right |-> TRUE,
     group_by_title |-> FALSE,
     plot_width |-> PlotWidth, plot_height |-> PlotHeight,
     title_font_size |-> 16, axis_label_font_size |-> 16,
     tick_label_font_size |-> 14,
     frame_stroke_width |-> 2, tick_stroke_width |-> 2,
     maintick_length |-> 12, subtick_length |-> 8,
     render_x_axis |-> TRUE, render_y_axis |-> TRUE, render_plot |-> TRUE,
     render_title |-> TRUE, render_border |-> TRUE,
     page |-> 1]

\* The scale and the bounds of the x axis: linear bounds in order,
\* inverted and equal; logarithmic bounds in order, inverted, not a number
\* and not positive.
XBounds ==
    {[scale |-> "x_axis_linear", lmin |-> 0, lmax |-> U(MaxVal), gmin |-> "1", gmax |-> "100"],
     [scale |-> "x_axis_linear", lmin |-> U(MaxVal), lmax |-> 0, gmin |-> "1", gmax |-> "100"],
     [scale |-> "x_axis_linear", lmin |-> U(2), lmax |-> U(2), gmin |-> "1", gmax |-> "100"],
     [scale |-> "x_axis_log", lmin |-> 0, lmax |-> U(MaxVal), gmin |-> "1", gmax |-> "100"],
     [scale |-> "x_axis_log", lmin |-> 0, lmax |-> U(MaxVal), gmin |-> "100", gmax |-> "1"],
     [scale |-> "x_axis_log", lmin |-> 0, lmax |-> U(MaxVal), gmin |-> "abc", gmax |-> "100"],
     [scale |-> "x_axis_log", lmin |-> 0, lmax |-> U(MaxVal), gmin |-> "0", gmax |-> "10"]}

YBounds ==
    {[scale |-> "y_axis_linear", lmin |-> 0, lmax |-> U(MaxVal)],
     [scale |-> "y_axis_linear", lmin |-> U(MaxVal), lmax |-> -Unit]}

\* What is drawn: everything; everything but frame and title, with the
\* ticks mirrored; neither ticks nor labels; the main ticks only, mirrored;
\* the sub ticks and the tick labels only.
Layouts ==
    {[ticks |-> TRUE, sub |-> TRUE, num |-> TRUE, mirror |-> FALSE,
      border |-> TRUE, edges |-> {"top", "bottom", "left", "right"},
      x_label |-> "x", x_placement |-> "bottom", y_placement |-> "left"],
     [ticks |-> TRUE, sub |-> TRUE, num |-> TRUE, mirror |-> TRUE,
      border |-> FALSE, edges |-> {"top", "bottom", "left", "right"},
      x_label |-> " ", x_placement |-> "top", y_placement |-> "right"],
     [ticks |-> FALSE, sub |-> FALSE, num |-> FALSE, mirror |-> FALSE,
      border |-> TRUE, edges |-> {},
      x_label |-> "", x_placement |-> "bottom", y_placement |-> "right"],
     [ticks |-> TRUE, sub |-> FALSE, num |-> FALSE, mirror |-> TRUE,
      border |-> FALSE, edges |-> {"left"},
      x_label |-> "x", x_placement |-> "top", y_placement |-> "left"],
     [ticks |-> FALSE, sub |-> TRUE, num |-> TRUE, mirror |-> FALSE,
      border |-> TRUE, edges |-> {"bottom", "right"},
      x_label |-> "", x_placement |-> "bottom", y_placement |-> "left"]}

Options ==
    {[DefaultOptions EXCEPT
        !.page = pg, !.title_text = t, !.group_by_title = g,
        !.x_scale = x.scale,
        !.x_axis_linear_min = x.lmin, !.x_axis_linear_max = x.lmax,
        !.x_axis_log_min = x.gmin, !.x_axis_log_max = x.gmax,
        !.y_scale = y.scale,
        !.y_axis_linear_min = y.lmin, !.y_axis_linear_max = y.lmax,
        !.x_linear_maintick_step = IF l.ticks THEN Unit ELSE 0,
        !.x_linear_subtick_step = IF l.sub THEN Unit \div 2 ELSE 0,
        !.x_linear_numtick_step = IF l.num THEN Unit ELSE 0,
        !.x_log_maintick_visible = l.ticks, !.x_log_subtick_visible = l.sub,
        !.x_log_numtick_visible = l.num,
        !.x_linear_tick_mirror = l.mirror, !.x_log_tick_mirror = l.mirror,
        !.y_linear_maintick_step = IF l.ticks THEN Unit ELSE 0,
        !.y_linear_subtick_step = 0,
        !.y_linear_numtick_step = IF l.num THEN Unit ELSE 0,
        !.y_linear_tick_mirror = l.mirror, !.y_log_tick_mirror = l.mirror,
        !.render_border = l.border, !.render_title = l.border,
        !.frame_top = "top" \in l.edges, !.frame_bottom = "bottom" \in l.edges,
        !.frame_left = "left" \in l.edges, !.frame_right = "right" \in l.edges,
        !.x_axis_label = l.x_label, !.y_axis_label = l.x_label,
        !.x_axis_placement = l.x_placement, !.y_axis_placement = l.y_placement,
        !.marker_shape = m, !.data_text = d] :
      pg \in {1, NumPages + 2}, t \in {"", "A", "a/b"}, g \in BOOLEAN,
      x \in XBounds, y \in YBounds, l \in Layouts,
      m \in {"circle", "none", "star"}, d \in DataTexts}

---------------------------------------------------------------------------
(* The scene before the request, and the requests                          *)

\* The titles of the earlier effect() requests that grouped by title.
PriorTitles == {"A", "a_b"}

\* A root group left by an earlier run: one of render, and the group that
\* effect() created for each of the earlier titles (lines 272-280).
PriorRoots ==
    {RootGroup(0, "graph-A", "", <<GroupNode("frame", 1)>>)}
    \cup {RootGroup(0, "graph", "graph_" \o Sanitize(t), <<GroupNode("frame", 1)>>) :
            t \in PriorTitles}

Init ==
    /\ call = NoCall
    /\ ret = NoRet
    /\ scene \in {<<>>} \cup {<<g>> : g \in PriorRoots}
    /\ req = NoReq
    /\ runs = <<>>

Render ==
    /\ req = NoReq
    /\ \E graph \in Graphs, dest \in 0..Len(scene) :
        /\ dest > 0 => graph.group_title = Absent
        /\ InkscapeRendererRender(graph, dest, PlotWidth, PlotHeight)
    /\ UNCHANGED <<call, ret, runs>>

Effect ==
    /\ req = NoReq
    /\ \E opts \in Options : EffectOn(opts)
    /\ UNCHANGED <<call, ret, runs>>

Next ==
    \/ Render
    \/ Effect

Spec == Init /\ [][Next]_vars

---------------------------------------------------------------------------
(* Calls of the pure functions (SpecPure): the call is drawn in the        *)
(* initial state, and the one action of its function runs it.              *)

RetResult(res) ==
    [done |-> TRUE, ok |-> res.ok, val |-> res.val, err |-> res.err,
     ticks |-> <<>>]

RetTicks(t) ==
    [done |-> TRUE, ok |-> TRUE, val |-> RatInt(0), err |-> "none",
     ticks |-> t]

\* Linear data values: whole units around the ranges.
Vals == {U(n) : n \in -1..MaxVal}

\* Logarithmic data values: one-digit mantissas over the decades
\* 10^-1 .. 10^MaxVal, and two non-positive values.
LogVals ==
    {-Unit, 0} \cup {m * PowFx(DefaultBase, e) : m \in {1, 2, 5}, e \in -1..MaxVal}

\* base ** exp is exact in fixed-point for every exponent the ticker tries.
Representable(base, lo, hi) ==
    \/ lo <= 0
    \/ hi <= 0
    \/ \A e \in FloorLog(base, Min2(lo, hi))..(-1) : Unit % Pow(base, -e) = 0

LinearCalls ==
    {Call("linear", 0, lo, hi, v, 0, 0) : lo \in Vals, hi \in Vals,
        v \in {U(n) : n \in -2..(MaxVal + 1)} \cup {Unit \div 2}}

LogCalls ==
    {Call("log", DefaultBase, lo, hi, v, 0, 0) :
        lo \in LogVals, hi \in LogVals, v \in LogVals}

StepCalls ==
    {Call("step", 0, lo, hi, 0, st, off) :
        lo \in Vals, hi \in Vals,
        st \in {-Unit, 0, Unit \div 2, Unit, U(2)},
        off \in {-U(2) - (Unit \div 2), -Unit, 0, Unit \div 2, Unit, U(MaxVal)}}
    \cup {Call("step", 0, 0, U(100), 0, U(10), 0),
          Call("step", 0, 0, U(47), 0, U(10), U(5)),
          Call("step", 0, 0, U(100), 0, U(10), U(25))}

\* The bounds of the logarithmic ticker calls add 25 and 150.
LogTickCalls(op) ==
    {c \in {Call(op, b, lo, hi, 0, 0, 0) :
                b \in {2, 5, DefaultBase},
                lo \in LogVals \cup {U(25), U(150)},
                hi \in LogVals \cup {U(25), U(150)}} :
        Representable(c.base, c.min, c.max)}

\* The values handed to the formatter: 0, and mantissas at, near and away
\* from 1 over the decades 10^-1 .. 10^MaxVal, of either sign.
FormatCalls ==
    {Call("format", 10, 0, 0, sign * m * Pow(10, e), 0, 0) :
        sign \in {-1, 1}, m \in {0, 1, 5, 12, 15, 25, 35, 96}, e \in 0..MaxVal}

\* The texts handed to parse_data: those of the requests, and one with a
\* blank line, lines of three columns and lines with an empty first cell.
\* The columns are 0-based.
ParseTexts ==
    DataTexts \cup
    {<<DataLine(FALSE, <<>>),
       DataLine(FALSE, <<Cell(TRUE, Unit), Cell(FALSE, 0), Cell(TRUE, U(2))>>),
       DataLine(TRUE, <<Cell(TRUE, Unit), Cell(TRUE, Unit), Cell(TRUE, Unit)>>),
       DataLine(FALSE, <<EmptyCell, Cell(TRUE, U(2)), Cell(TRUE, U(3))>>),
       DataLine(FALSE, <<EmptyCell, EmptyCell>>),
       DataLine(FALSE, <<Cell(TRUE, 0), Cell(TRUE, Unit), Cell(TRUE, U(2))>>)>>}

ParseCalls ==
    {[Call("parse", 0, 0, 0, 0, 0, 0) EXCEPT
        !.data_text = d, !.x_column = xc, !.y_column = yc, !.delimiter = dl] :
        d \in ParseTexts, xc \in 0..2, yc \in 0..2,
        dl \in {"tab", "space", "comma", "other"}}

PureCalls ==
    LinearCalls \cup LogCalls \cup StepCalls
        \cup LogTickCalls("logmain") \cup LogTickCalls("logsub")
        \cup FormatCalls \cup ParseCalls

InitPure ==
    /\ call \in PureCalls
    /\ ret = NoRet
    /\ scene = <<>>
    /\ req = NoReq
    /\ runs = <<>>

CallLinearNormalize ==
    /\ call.op = "linear" /\ ~ret.done
    /\ ret' = RetResult(LinearNormalize(Range(call.min, call.max), call.value))
    /\ UNCHANGED <<call, scene, req, runs>>

CallLogNormalize ==
    /\ call.op = "log" /\ ~ret.done
    /\ ret' = RetResult(LogNormalize(call.base, Range(call.min, call.max), call.value))
    /\ UNCHANGED <<call, scene, req, runs>>

CallStepTicker ==
    /\ call.op = "step" /\ ~ret.done
    /\ ret' = RetTicks(StepTickerGetTicks(call.step, call.offset,
                                          Range(call.min, call.max)))
    /\ UNCHANGED <<call, scene, req, runs>>

CallLogMainTicker ==
    /\ call.op = "logmain" /\ ~ret.done
    /\ ret' = RetTicks(LogMainTickerGetTicks(call.base, Range(call.min, call.max)))
    /\ UNCHANGED <<call, scene, req, runs>>

CallLogSubTicker ==
    /\ call.op = "logsub" /\ ~ret.done
    /\ ret' = RetTicks(LogSubTickerGetTicks(call.base, Range(call.min, call.max)))
    /\ UNCHANGED <<call, scene, req, runs>>

CallScientificFormat ==
    /\ call.op = "format" /\ ~ret.done
    /\ ret' = RetResult(Ok(ScientificFormat(DefaultPrecision, call.value)))
    /\ UNCHANGED <<call, scene, req, runs>>

CallParseData ==
    /\ call.op = "parse" /\ ~ret.done
    /\ ret' = RetResult(Ok(Series(ParseData(call.data_text, call.x_column,
                                            call.y_column, call.delimiter))))
    /\ UNCHANGED <<call, scene, req, runs>>

NextPure ==
    \/ CallLinearNormalize
    \/ CallLogNormalize
    \/ CallStepTicker
    \/ CallLogMainTicker
    \/ CallLogSubTicker
    \/ CallScientificFormat
    \/ CallParseData

SpecPure == InitPure /\ [][NextPure]_vars

---------------------------------------------------------------------------
(* utils.py: make_id, and the ids of the groups of a document              *)

\* The renders into one document
MaxRenders == 2

\* random.randint(0, 9999): both ends and a value between them
RandInts == {0, 42, 9999}

\* f"{n:04d}"
Pad4(n) ==
    (IF n < 10 THEN "000" ELSE IF n < 100 THEN "00"
     ELSE IF n < 1000 THEN "0" ELSE "") \o ToString(n)

\* make_id, n being the number that random.randint returned
MakeId(id_str, n) == id_str \o "_" \o Pad4(n)

\* An element of the document that was given an id, by the render that
\* created it
IdNode(render, id_str, id) == [render |-> render, id_str |-> id_str, id |-> id]

\* The groups that render gives an id when the graph has a frame and a
\* title, no group title and no visible axis and no plot: the root
\* (line 69), the frame (line 107) and the title (line 479).
RenderIds(render, n_root, n_frame, n_title) ==
    <<IdNode(render, "graph", MakeId("graph", n_root)),
      IdNode(render, "frame", MakeId("frame", n_frame)),
      IdNode(render, "title", MakeId("title", n_title))>>

InitIds ==
    /\ call = NoCall
    /\ ret = NoRet
    /\ scene = <<>>
    /\ req = NoReq
    /\ runs = <<>>

\* One render into the document, for each outcome of the three calls of
\* random.randint
RenderSetsIds ==
    /\ Len(scene) < 3 * MaxRenders
    /\ \E n_root \in RandInts, n_frame \in RandInts, n_title \in RandInts :
        scene' = scene \o RenderIds(Len(scene) \div 3 + 1, n_root, n_frame, n_title)
    /\ UNCHANGED <<call, ret, req, runs>>

NextIds == RenderSetsIds

SpecIds == InitIds /\ [][NextIds]_vars

---------------------------------------------------------------------------
(* renderer/renderer.py: two renders that share one Graph and one part     *)
(* list, each with its own GraphRoot, its steps taken in any order         *)

\* Variant: the title renderer clears the title once it has drawn it.
GraphAfterPartUntitled(part, graph) ==
    IF part.kind = "title" THEN [graph EXCEPT !.title = None] ELSE graph

\* Variant: the plots renderer takes the points out of the series.
GraphAfterPartDrained(part, graph) ==
    IF part.kind = "plots"
    THEN [graph EXCEPT !.series = Series(<<>>)] ELSE graph

\* Variant: the axis renderer clears the label of the x axis.
GraphAfterPartRelabelled(part, graph) ==
    IF part.kind = "axis" THEN [graph EXCEPT !.x_axis.label = None] ELSE graph

\* The graph when part.render(graph, root) has returned: the parts read
\* graph.title, the axes and graph.series and assign to none of them.
GraphAfterPart(part, graph) == graph

\* A render: the parts it has run, and whether one of them raised
Run(pos, ok, err) == [pos |-> pos, ok |-> ok, err |-> err]

\* The options of the shared request: the page is there, the chart has a
\* title, and the graph and the part renderers can be built.
SharedOptions ==
    {o \in Options :
        /\ o.page = 1 /\ o.title_text = "A" /\ ~o.group_by_title
        /\ BuildGraph(o).ok
        /\ RendererParts(o, BuildPlotsRenderer(o)).ok}

\* renderer_parts of the request (main.py 211-231)
SharedParts == RendererParts(req.input, BuildPlotsRenderer(req.input)).parts

\* The graph as effect() built it (main.py 206)
SharedBuilt(built) == TheGraph(built.graph, built.x_inverted, built.y_inverted)

InitShared ==
    /\ call = NoCall
    /\ ret = NoRet
    /\ scene = <<RootGroup(1, "graph", "", <<>>), RootGroup(2, "graph", "", <<>>)>>
    /\ \E o \in SharedOptions :
        req = Request("shared", o, TRUE, "none", 0, FALSE, SharedBuilt(BuildGraph(o)))
    /\ runs = <<Run(0, TRUE, "none"), Run(0, TRUE, "none")>>

\* One pass of the loop of render_graph_parts in render i: the part drew
\* into the root of that render.
PartDrawn(i, part, drawn) ==
    /\ scene' = [scene EXCEPT ![i].nodes = @ \o Stamp(drawn.nodes, i)]
    /\ runs' = [runs EXCEPT ![i] = Run(@.pos + 1, drawn.ok, drawn.err)]
    /\ req' = [req EXCEPT !.graph.graph = GraphAfterPart(part, @)]

PartStep ==
    /\ \E i \in 1..Len(runs) :
        /\ runs[i].ok
        /\ runs[i].pos < Len(SharedParts)
        /\ PartDrawn(i, SharedParts[runs[i].pos + 1],
                     PartRender(SharedParts[runs[i].pos + 1], req.graph.graph,
                                Px(req.input.plot_width), Px(req.input.plot_height)))
    /\ UNCHANGED <<call, ret>>

NextShared == PartStep

SpecShared == InitShared /\ [][NextShared]_vars

---------------------------------------------------------------------------
(* Properties of the renderers (Spec)                                      *)

Handled == req.handler # "none"

\* The nodes of the root group the request drew into, and those of them
\* the request created.
RootNodes == IF req.root > 0 THEN scene[req.root].nodes ELSE <<>>
Created(kind) ==
    {i \in 1..Len(RootNodes) : RootNodes[i].req = 1 /\ RootNodes[i].kind = kind}

\* The bounds of the two axes of the graph of the request, and its points.
XBoundsOf(g) == IF req.handler = "render" THEN g.x_axis.range ELSE g.x_axis.interval
YBoundsOf(g) == IF req.handler = "render" THEN g.y_axis.range ELSE g.y_axis.interval
PointsOf(g) ==
    IF req.handler = "render"
    THEN Flatten([i \in 1..Len(g.plots) |-> g.plots[i].points])
    ELSE [i \in 1..Len(g.series.xs) |-> [x |-> g.series.xs[i], y |-> g.series.ys[i]]]

Within(b, v) == Min2(b.min, b.max) <= v /\ v <= Max2(b.min, b.max)
InRangePoints(g) ==
    {i \in 1..Len(PointsOf(g)) :
        /\ Within(XBoundsOf(g), PointsOf(g)[i].x)
        /\ Within(YBoundsOf(g), PointsOf(g)[i].y)}

PlotDrawn ==
    \E i \in 1..Len(RootNodes) :
        /\ RootNodes[i].req = 1
        /\ RootNodes[i].part = "plot" /\ RootNodes[i].kind = "group"

\* C1: plot rendering emits exactly one marker for every series point that
\* lies inside both axis intervals and none for any other point: the
\* number of markers equals the number of in-range points.
C1_MarkersAreTheInRangePoints ==
    (Handled /\ req.ok /\ req.graph.built /\ PlotDrawn)
        => Cardinality(Created("marker")) = Cardinality(InRangePoints(req.graph.graph))

\* Something in the scene was created by the request: a root group or a
\* node of a root group.
LeftBehind ==
    \E r \in 1..Len(scene) :
        \/ scene[r].req = 1
        \/ \E i \in 1..Len(scene[r].nodes) : scene[r].nodes[i].req = 1

\* C2: if a request fails with a validation error (a range the scale
\* rejects, a non-positive bound under a logarithmic scale, a bound that is
\* not a number), the scene holds no node created by that request: neither
\* a partly drawn chart nor an empty group.
C2_FailedRequestLeavesNothing ==
    (Handled /\ ~req.ok /\ req.err \in {"ValueError", "DomainError"})
        => ~LeftBehind

GivenX(opts) ==
    IF opts.x_scale = "x_axis_linear"
    THEN ParsedBounds(Ok(opts.x_axis_linear_min), Ok(opts.x_axis_linear_max))
    ELSE ParsedBounds(Float(opts.x_axis_log_min), Float(opts.x_axis_log_max))
GivenY(opts) ==
    IF opts.y_scale = "y_axis_linear"
    THEN ParsedBounds(Ok(opts.y_axis_linear_min), Ok(opts.y_axis_linear_max))
    ELSE ParsedBounds(Float(opts.y_axis_log_min), Float(opts.y_axis_log_max))

Ordered(given, interval, inverted) ==
    /\ interval.min <= interval.max
    /\ interval.min = Min2(given.min, given.max)
    /\ interval.max = Max2(given.min, given.max)
    /\ inverted = (given.min > given.max)

LinearAxes(g) ==
    IF req.handler = "render"
    THEN g.x_axis.normalizer = "linear" /\ g.y_axis.normalizer = "linear"
    ELSE g.x_axis.scale = "linear" /\ g.y_axis.scale = "linear"

\* C4: the render pipeline runs every part to completion: with linear
\* scales on both axes, whatever the intervals (zero-length included), the
\* points (out of range included) and the ticks (none included), no part
\* raises an error and the request returns.
C4_PipelineRunsToCompletion ==
    (Handled /\ req.graph.built /\ LinearAxes(req.graph.graph)) => req.ok

\* The nodes the request created for a part, and those of a kind among
\* them.
NodesOf(part) ==
    {i \in 1..Len(RootNodes) : RootNodes[i].req = 1 /\ RootNodes[i].part = part}
KindOf(part, kind) == {i \in NodesOf(part) : RootNodes[i].kind = kind}
AllBefore(A, B) == \A a \in A, b \in B : a < b
AxisNodes == NodesOf("x_axis") \cup NodesOf("y_axis")

\* C14: within one request the parts append their nodes in the order Frame,
\* Title, x axis, y axis, Plot: every frame node precedes every axis node,
\* every axis node precedes every marker, and the title precedes the axes
\* and the markers.
C14_PartsAppendInNaturalOrder ==
    Handled
        => /\ AllBefore(NodesOf("frame"), AxisNodes)
           /\ AllBefore(NodesOf("x_axis"), NodesOf("y_axis"))
           /\ AllBefore(AxisNodes, Created("marker"))
           /\ AllBefore(NodesOf("title"), AxisNodes \cup Created("marker"))

\* The place of a node in the order of the sub-parts of an axis: the axis
\* line, the main ticks, the sub ticks, the tick labels, the axis label
\* (0: a container that holds ticks of either kind, or the axis group).
SubPartRank(kind) ==
    CASE kind = "axis_line" -> 1
      [] kind \in {"main_tick", "main_tick_mirror"} -> 2
      [] kind \in {"sub_tick", "sub_tick_mirror"} -> 3
      [] kind \in {"ticklabels", "tick_label"} -> 4
      [] kind \in {"axis_label", "axislabel_empty"} -> 5
      [] OTHER -> 0

SubPartsInOrder(part) ==
    \A i \in NodesOf(part), j \in NodesOf(part) :
        (/\ i < j
         /\ SubPartRank(RootNodes[i].kind) > 0
         /\ SubPartRank(RootNodes[j].kind) > 0)
            => SubPartRank(RootNodes[i].kind) <= SubPartRank(RootNodes[j].kind)

Count(S) == Cardinality(S)
OneIf(b) == IF b THEN 1 ELSE 0

\* InkscapeRenderer: the axis line is drawn with the axis, the ticks and
\* the tick labels of an enabled ticker are one node for each of its ticks,
\* the label is drawn iff it is not empty.
OldSubPartsAsEnabled(part, axis) ==
    LET n(t) == IF t.kind = "none" THEN 0 ELSE Len(GetTicks(t, axis.range))
    IN  /\ Count(KindOf(part, "axis_line")) = OneIf(axis.visible)
        /\ Count(KindOf(part, "main_tick")) = n(axis.main_ticks)
        /\ Count(KindOf(part, "sub_tick")) = n(axis.sub_ticks)
        /\ Count(KindOf(part, "tick_label")) = n(axis.tick_labels)
        /\ Count(KindOf(part, "axis_label")) = OneIf(axis.label # "")

\* AxisRenderer: each generator that is not None adds its one element (a
\* line, a group of tick lines, a group of tick labels, a text), and no
\* tick of a generator that is None is drawn.
NewSubPartsAsEnabled(part, ar) ==
    IF ~ar.present THEN NodesOf(part) = {}
    ELSE /\ Count(KindOf(part, "axis_line")) = OneIf(ar.line.present)
         /\ Count(KindOf(part, "ticklines"))
                = OneIf(ar.main_tick_lines.present) + OneIf(ar.sub_tick_lines.present)
         /\ ~ar.main_tick_lines.present => KindOf(part, "main_tick") = {}
         /\ ~ar.sub_tick_lines.present => KindOf(part, "sub_tick") = {}
         /\ Count(KindOf(part, "ticklabels")) = OneIf(ar.tick_labels.present)
         /\ Count(KindOf(part, "axis_label") \cup KindOf(part, "axislabel_empty"))
                = OneIf(ar.axis_label.present)

\* C15: an axis emits its sub-parts in the order axis line, main ticks, sub
\* ticks, tick labels, axis label; in a request that returned, each of them
\* is emitted iff it is enabled, whatever the others are.
C15_AxisSubPartsInOrderAsEnabled ==
    (Handled /\ req.root > 0)
        => /\ SubPartsInOrder("x_axis") /\ SubPartsInOrder("y_axis")
           /\ (req.ok /\ req.handler = "render")
                => /\ OldSubPartsAsEnabled("x_axis", req.input.graph.x_axis)
                   /\ OldSubPartsAsEnabled("y_axis", req.input.graph.y_axis)
           /\ (req.ok /\ req.handler = "effect")
                => /\ NewSubPartsAsEnabled("x_axis", BuildAxisRenderer(req.input, "x"))
                   /\ NewSubPartsAsEnabled("y_axis", BuildAxisRenderer(req.input, "y"))

\* effect() drew an x axis with main ticks and a label, and neither sub
\* ticks nor tick labels.
C15_Witness ==
    /\ req.handler = "effect" /\ req.ok
    /\ Count(KindOf("x_axis", "main_tick")) >= 2
    /\ KindOf("x_axis", "sub_tick") = {}
    /\ KindOf("x_axis", "ticklabels") = {}
    /\ KindOf("x_axis", "axis_label") # {}

\* What a request says about one of its axes: the placement, whether the
\* ticks are mirrored, and the lengths of the main and the sub ticks.
AxisFacts(part) ==
    IF req.handler = "render"
    THEN LET axis == IF part = "x_axis" THEN req.input.graph.x_axis
                     ELSE req.input.graph.y_axis
         IN  [placement |-> axis.placement,
              mirror_main |-> axis.mirror_main_ticks,
              mirror_sub |-> axis.mirror_sub_ticks,
              main_length |-> RatInt(MainTickLength),
              sub_length |-> RatInt(SubTickLength)]
    ELSE LET o == req.input
             linear == IF part = "x_axis" THEN o.x_scale = "x_axis_linear"
                       ELSE o.y_scale = "y_axis_linear"
             mirror == IF part = "x_axis"
                       THEN IF linear THEN o.x_linear_tick_mirror ELSE o.x_log_tick_mirror
                       ELSE IF linear THEN o.y_linear_tick_mirror ELSE o.y_log_tick_mirror
         IN  [placement |-> IF part = "x_axis" THEN o.x_axis_placement
                            ELSE o.y_axis_placement,
              mirror_main |-> mirror, mirror_sub |-> mirror,
              main_length |-> Px(o.maintick_length),
              sub_length |-> Px(o.subtick_length)]

\* The coordinate of a tick along its axis, and the two ends of the tick
\* across it.
AlongAxis(placement, node) ==
    IF placement \in {"bottom", "top"} THEN node.p.x ELSE node.p.y
AcrossStart(placement, node) ==
    IF placement \in {"bottom", "top"} THEN node.p.y ELSE node.p.x
AcrossEnd(placement, node) ==
    IF placement \in {"bottom", "top"} THEN node.q.y ELSE node.q.x

\* The plot-area edge opposite to a placement, and the point a given
\* length inside the plot area from that edge.
OppositeEdge(placement) ==
    CASE placement = "bottom" -> RatInt(0)
      [] placement = "top" -> RatInt(PlotHeight)
      [] placement = "left" -> RatInt(PlotWidth)
      [] placement = "right" -> RatInt(0)
InsideFromOpposite(placement, length) ==
    IF placement \in {"bottom", "right"}
    THEN RatAdd(OppositeEdge(placement), length)
    ELSE RatSub(OppositeEdge(placement), length)

TicksMirrored(part, own, mirror, enabled, placement, length) ==
    IF enabled
    THEN /\ Count(KindOf(part, mirror)) = Count(KindOf(part, own))
         /\ {AlongAxis(placement, RootNodes[i]) : i \in KindOf(part, mirror)}
                = {AlongAxis(placement, RootNodes[i]) : i \in KindOf(part, own)}
         /\ \A i \in KindOf(part, mirror) :
                /\ AcrossStart(placement, RootNodes[i]) = OppositeEdge(placement)
                /\ AcrossEnd(placement, RootNodes[i])
                        = InsideFromOpposite(placement, length)
    ELSE KindOf(part, mirror) = {}

\* C16: with tick mirroring enabled an axis emits, besides its own ticks, a
\* second set of segments of the same count at the same positions along
\* the axis, each from the opposite plot-area edge one tick length into the
\* plot area; with mirroring disabled it emits none; no tick label is
\* drawn twice.
C16_MirroredTicksOnOppositeEdge ==
    (Handled /\ req.ok /\ req.root > 0)
        => \A part \in {"x_axis", "y_axis"} :
              /\ TicksMirrored(part, "main_tick", "main_tick_mirror",
                               AxisFacts(part).mirror_main,
                               AxisFacts(part).placement,
                               AxisFacts(part).main_length)
              /\ TicksMirrored(part, "sub_tick", "sub_tick_mirror",
                               AxisFacts(part).mirror_sub,
                               AxisFacts(part).placement,
                               AxisFacts(part).sub_length)
              /\ \A i \in KindOf(part, "tick_label"), j \in KindOf(part, "tick_label") :
                    RootNodes[i].val = RootNodes[j].val => i = j

\* The position of the axis line across the axis when the axis offset is
\* 0, the point a given length inside the plot area from it, and whether a
\* coordinate lies outward of it.
AxisEdge(placement) ==
    CASE placement = "bottom" -> RatInt(PlotHeight)
      [] placement = "top" -> RatInt(0)
      [] placement = "left" -> RatInt(0)
      [] placement = "right" -> RatInt(PlotWidth)
InsideFromAxis(placement, length) ==
    IF placement \in {"bottom", "right"}
    THEN RatSub(AxisEdge(placement), length)
    ELSE RatAdd(AxisEdge(placement), length)
Outward(placement, c) ==
    IF placement \in {"bottom", "right"}
    THEN RatLT(AxisEdge(placement), c)
    ELSE RatLT(c, AxisEdge(placement))

OwnTicksInward(part, kind, placement, length) ==
    \A i \in KindOf(part, kind) :
        /\ AcrossStart(placement, RootNodes[i]) = AxisEdge(placement)
        /\ AcrossEnd(placement, RootNodes[i]) = InsideFromAxis(placement, length)

\* C17: with axis offset 0, every own-side tick starts on the axis line and
\* ends one tick length inside the plot area (bottom: y = height - L, top:
\* y = L, left: x = L, right: x = width - L); a perpendicular offset by a
\* positive delta moves outward (bottom and right add, top and left
\* subtract); the tick labels lie outward of the axis line.
C17_TicksInwardLabelsOutward ==
    /\ \A pl \in {"bottom", "top", "left", "right"}, d \in {1, MainTickLength} :
          PerpendicularOffset([placement |-> pl, pos_offset |-> RatInt(0)],
                              AxisEdge(pl), RatInt(d))
            = IF pl \in {"bottom", "right"} THEN RatAdd(AxisEdge(pl), RatInt(d))
              ELSE RatSub(AxisEdge(pl), RatInt(d))
    /\ (Handled /\ req.root > 0)
        => \A part \in {"x_axis", "y_axis"} :
              /\ OwnTicksInward(part, "main_tick", AxisFacts(part).placement,
                                AxisFacts(part).main_length)
              /\ OwnTicksInward(part, "sub_tick", AxisFacts(part).placement,
                                AxisFacts(part).sub_length)
              /\ \A i \in KindOf(part, "tick_label") :
                    Outward(AxisFacts(part).placement,
                            AcrossStart(AxisFacts(part).placement, RootNodes[i]))

\* effect() drew a top x axis and a right y axis with ticks and tick
\* labels.
C17_Witness ==
    /\ req.handler = "effect" /\ req.ok
    /\ req.input.x_axis_placement = "top" /\ req.input.y_axis_placement = "right"
    /\ Count(KindOf("x_axis", "main_tick")) >= 2
    /\ KindOf("x_axis", "sub_tick") # {}
    /\ KindOf("x_axis", "tick_label") # {}
    /\ KindOf("y_axis", "main_tick") # {}

\* The nodes of an axis that start at the position of a data value (the
\* tick lines; val is the value; a tick label is shifted from it to centre
\* the text), and the bounds of the axis.
ValueNodes(part) ==
    {i \in NodesOf(part) :
        RootNodes[i].kind \in {"main_tick", "sub_tick",
                               "main_tick_mirror", "sub_tick_mirror"}}
AxisBounds(part) ==
    IF part = "x_axis" THEN XBoundsOf(req.graph.graph)
    ELSE YBoundsOf(req.graph.graph)

\* Positions grow with the values along an x axis and fall along a y axis
\* (up is towards y = 0); reversed, it is the other way round.
Monotonic(part, placement, reversed) ==
    \A i \in ValueNodes(part), j \in ValueNodes(part) :
        RootNodes[i].val < RootNodes[j].val
            => LET a == AlongAxis(placement, RootNodes[i])
                   b == AlongAxis(placement, RootNodes[j])
               IN  IF (placement \in {"bottom", "top"}) # reversed
                   THEN RatLE(a, b) ELSE RatLE(b, a)

\* min is at the left or bottom end of the plot area, max at the right or
\* top end.
EndsAtEdges(part, placement, bounds) ==
    \A i \in ValueNodes(part) :
        LET a == AlongAxis(placement, RootNodes[i])
            horizontal == placement \in {"bottom", "top"}
        IN  /\ RootNodes[i].val = bounds.min
                => a = IF horizontal THEN RatInt(0) ELSE RatInt(PlotHeight)
            /\ RootNodes[i].val = bounds.max
                => a = IF horizontal THEN RatInt(PlotWidth) ELSE RatInt(0)

FrameFacts ==
    IF req.handler = "render"
    THEN LET f == req.input.graph.frame
         IN  [top |-> f.present /\ f.top, bottom |-> f.present /\ f.bottom,
              left |-> f.present /\ f.left, right |-> f.present /\ f.right,
              half |-> Rat(FrameStrokeWidth, 2)]
    ELSE LET o == req.input
         IN  [top |-> o.render_border /\ o.frame_top,
              bottom |-> o.render_border /\ o.frame_bottom,
              left |-> o.render_border /\ o.frame_left,
              right |-> o.render_border /\ o.frame_right,
              half |-> Rat(o.frame_stroke_width, 2)]

FrameEdges == {"top", "bottom", "left", "right"}

\* The line of an edge: on its side of the plot area, half the stroke width
\* beyond both ends.
EdgeLine(edge, half) ==
    LET lo == RatNeg(half)
        w == RatInt(PlotWidth)
        h == RatInt(PlotHeight)
        zero == RatInt(0)
    IN  CASE edge = "top" -> [p |-> [x |-> lo, y |-> zero],
                              q |-> [x |-> RatAdd(w, half), y |-> zero]]
          [] edge = "bottom" -> [p |-> [x |-> lo, y |-> h],
                                 q |-> [x |-> RatAdd(w, half), y |-> h]]
          [] edge = "left" -> [p |-> [x |-> zero, y |-> lo],
                               q |-> [x |-> zero, y |-> RatAdd(h, half)]]
          [] edge = "right" -> [p |-> [x |-> w, y |-> lo],
                                q |-> [x |-> w, y |-> RatAdd(h, half)]]

LinesOfEdge(edge, half) ==
    {i \in KindOf("frame", "line") :
        /\ RootNodes[i].p = EdgeLine(edge, half).p
        /\ RootNodes[i].q = EdgeLine(edge, half).q}

\* C19: the frame is one line for each enabled edge, each on its side of the
\* plot area and half the stroke width beyond both ends, no other line, and
\* nothing at all when no edge is enabled.
C19_FrameIsOneLinePerEnabledEdge ==
    (Handled /\ req.root > 0)
        => /\ \A i \in KindOf("frame", "line") :
                \E e \in FrameEdges :
                    FrameFacts[e] /\ i \in LinesOfEdge(e, FrameFacts.half)
           /\ req.ok
                => \A e \in FrameEdges :
                      Count(LinesOfEdge(e, FrameFacts.half)) = OneIf(FrameFacts[e])
           /\ (\A e \in FrameEdges : ~FrameFacts[e]) => NodesOf("frame") = {}

\* The k-th element of a set of indices, in ascending order.
Kth(S, k) == CHOOSE i \in S : Cardinality({j \in S : j < i}) = k - 1

\* The normalization of a value by an axis of the graph of the request.
NormOf(axis, v) ==
    IF req.handler = "render" THEN Transform(axis, v) ELSE AxisNormalize(axis, v)

\* The node is centred at (normX * width, (1 - normY) * height) for the
\* point.
CentredAt(node, g, pt) ==
    /\ node.p.x = RatMul(NormOf(g.x_axis, pt.x).val, RatInt(PlotWidth))
    /\ node.p.y = RatMul(RatSub(RatInt(1), NormOf(g.y_axis, pt.y).val),
                         RatInt(PlotHeight))

\* The points the plot loop draws, in the order of the series:
\* InkscapeRenderer draws every point, PlotsRenderer those inside both
\* intervals.
DrawnPoints(g) ==
    IF req.handler = "render" THEN 1..Len(PointsOf(g)) ELSE InRangePoints(g)

MarkersCentred(g, markers, drawn) ==
    /\ Cardinality(markers) <= Cardinality(drawn)
    /\ \A k \in 1..Cardinality(markers) :
          Kth(drawn, k) \in InRangePoints(g)
              => CentredAt(RootNodes[Kth(markers, k)], g,
                           PointsOf(g)[Kth(drawn, k)])

\* The point (50, 50) on linear axes [0, 100] x [0, 100], drawn by either
\* renderer.
ExampleAxisOld ==
    Axis("", Range(0, U(100)), "linear", "bottom",
         TickSet(NoTicker, NoTicker, NoTicker), FALSE)
ExampleAxisNew ==
    [label |-> None, interval |-> [min |-> 0, max |-> U(100)], scale |-> "linear"]
ExampleMarkers ==
    {RenderPlotPoint(Transform(ExampleAxisOld, U(50)),
                     Transform(ExampleAxisOld, U(50)),
                     "circle", PlotWidth, PlotHeight).nodes,
     PlotPoint(CreateMarkerGenerator("circle", Px(6), Px(1)).val,
               [x_axis |-> ExampleAxisNew, y_axis |-> ExampleAxisNew],
               U(50), U(50), RatInt(PlotWidth), RatInt(PlotHeight)).nodes}

\* C20: the marker of every series point inside both axis intervals is
\* centred at (normX * width, (1 - normY) * height); on linear axes
\* [0, 100] x [0, 100] and a 400 x 400 plot area the point (50, 50) gives
\* one marker centred at (200, 200).
C20_MarkersCentredOnMappedPoint ==
    /\ (Handled /\ req.root > 0 /\ req.graph.built)
          => MarkersCentred(req.graph.graph, Created("marker"),
                            DrawnPoints(req.graph.graph))
    /\ ExampleMarkers = {<<TextNode("plot", "marker", 2, RatInt(200), RatInt(200), 0)>>}

\* A request drew the marker of a point inside both intervals that is
\* neither on an end of an axis nor on the diagonal of the plot area;
\* effect() did.
C20_MarkerOffDiagonal ==
    /\ Handled /\ req.ok /\ req.graph.built
    /\ \E k \in 1..Cardinality(Created("marker")) :
          LET node == RootNodes[Kth(Created("marker"), k)]
          IN  /\ Kth(DrawnPoints(req.graph.graph), k) \in InRangePoints(req.graph.graph)
              /\ node.p.x # node.p.y
              /\ RatLT(RatInt(0), node.p.x) /\ RatLT(node.p.x, RatInt(PlotWidth))
              /\ RatLT(RatInt(0), node.p.y) /\ RatLT(node.p.y, RatInt(PlotHeight))
C20_Witness == C20_MarkerOffDiagonal /\ req.handler = "effect"

\* The coordinate lies on the plot area along the direction of a placement:
\* within [0, width] for bottom and top, within [0, height] for left and
\* right.
OnPlotArea(placement, c) ==
    /\ RatLE(RatInt(0), c)
    /\ RatLE(c, RatInt(IF placement \in {"bottom", "top"} THEN PlotWidth ELSE PlotHeight))

AlongWithinPlotArea(part, kinds) ==
    \A i \in NodesOf(part) :
        RootNodes[i].kind \in kinds
            => OnPlotArea(AxisFacts(part).placement,
                          AlongAxis(AxisFacts(part).placement, RootNodes[i]))

MarkersWithinPlotArea ==
    \A i \in Created("marker") :
        /\ OnPlotArea("bottom", RootNodes[i].p.x)
        /\ OnPlotArea("left", RootNodes[i].p.y)

TickLineKinds == {"main_tick", "sub_tick", "main_tick_mirror", "sub_tick_mirror"}

\* C30 as stated: every marker, tick mark and tick label a render emits is
\* inside the plot area along the data direction: marker centres have
\* 0 <= x <= width and 0 <= y <= height, and the coordinate of every tick
\* and tick label along its axis is within [0, width] on a horizontal axis
\* and within [0, height] on a vertical one.
C30_MarksStayWithinThePlotArea ==
    (Handled /\ req.root > 0)
        => /\ MarkersWithinPlotArea
           /\ \A part \in {"x_axis", "y_axis"} :
                AlongWithinPlotArea(part, TickLineKinds \cup {"tick_label"})

\* The tick labels InkscapeRenderer draws on a vertical axis are font_size / 3
\* below the positions of their ticks.
LabelsLoweredWithinPlotArea(part) ==
    \A i \in KindOf(part, "tick_label") :
        OnPlotArea(AxisFacts(part).placement,
                   RatSub(AlongAxis(AxisFacts(part).placement, RootNodes[i]),
                          Rat(TickLabelFontSize, 3)))

\* C30 as amended: the same for the markers and the tick marks of both
\* renderers, for the tick labels of AxisRenderer and for those
\* InkscapeRenderer draws on a horizontal axis; a tick label InkscapeRenderer
\* draws on a vertical axis is at the y of its tick plus font_size / 3, which
\* is within [font_size / 3, height + font_size / 3].
C30_MarksWithinAndLabelsAtTheirTicks ==
    (Handled /\ req.root > 0)
        => /\ MarkersWithinPlotArea
           /\ \A part \in {"x_axis", "y_axis"} :
                /\ AlongWithinPlotArea(part, TickLineKinds)
                /\ IF /\ req.handler = "render"
                      /\ AxisFacts(part).placement \in {"left", "right"}
                   THEN LabelsLoweredWithinPlotArea(part)
                   ELSE AlongWithinPlotArea(part, {"tick_label"})

\* effect() drew markers, ticks and tick labels on both axes for a series
\* with a point outside the intervals.
C30_Witness ==
    /\ req.handler = "effect" /\ req.ok /\ req.graph.built
    /\ Created("marker") # {}
    /\ Cardinality(InRangePoints(req.graph.graph)) < Len(PointsOf(req.graph.graph))
    /\ \A part \in {"x_axis", "y_axis"} :
          KindOf(part, "main_tick") # {} /\ KindOf(part, "tick_label") # {}

\* The root group g is in the scene after the step as it was before, but
\* for nodes added after its own.
Extended(before, after) ==
    /\ after.id_base = before.id_base
    /\ after.label = before.label
    /\ after.req = before.req
    /\ Len(after.nodes) >= Len(before.nodes)
    /\ SubSeq(after.nodes, 1, Len(before.nodes)) = before.nodes

\* C23: the scene is an append-only sink: every step leaves every root
\* group and every node that was in the scene where it was and as it was,
\* and what a request creates comes after them, also in a container that
\* is reused.
C23_SceneIsAppendOnly ==
    [][/\ Len(scene') >= Len(scene)
       /\ \A i \in 1..Len(scene) : Extended(scene[i], scene'[i])]_vars

\* A request drew into a root group that was there before it, after the
\* nodes that group held.
C23_Witness ==
    /\ Handled /\ req.root > 0 /\ ~req.created
    /\ scene[req.root].req = 0
    /\ scene[req.root].nodes[1].req = 0
    /\ \E i \in 2..Len(RootNodes) : RootNodes[i].req = 1


\* The title of the earlier request that created a root group of the scene
\* before the request (None: it was not created by grouping by title).
CreatedFor(g) ==
    IF g.req # 0 \/ g.label = "" THEN None
    ELSE CHOOSE t \in PriorTitles : g.label = "graph_" \o Sanitize(t)

\* The root groups that earlier group-by-title requests created for a title
RootsOfTitle(title) ==
    {i \in 1..Len(scene) : scene[i].req = 0 /\ CreatedFor(scene[i]) = title}

\* C26: a request of effect() draws into an existing container if and only
\* if it groups by title, its title is not empty and the container was
\* created by an earlier group-by-title request with the same title; in
\* every other case it creates exactly one new container, so charts with
\* different titles never share a container.
C26_ReuseOnlyForTheSameTitle ==
    (Handled /\ req.handler = "effect" /\ req.root > 0) =>
        LET title == NormalizeText(req.input.title_text)
            same == IF req.input.group_by_title /\ title # None
                    THEN RootsOfTitle(title) ELSE {}
        IN  /\ ~req.created <=> same # {}
            /\ ~req.created => req.root \in same
            /\ req.created =>
                /\ req.root = Len(scene)
                /\ {i \in 1..Len(scene) : scene[i].req = 1} = {req.root}

---------------------------------------------------------------------------
(* Properties of the tickers and normalizers (SpecPure)                    *)

Ran(op) == call.op = op /\ ret.done

StrictlyAscending(t) == \A i \in 1..(Len(t) - 1) : t[i] < t[i + 1]

\* The members of {offset + n * step : n integer} within [lo, hi], ascending.
AbsoluteSequence(step, offset, lo, hi) ==
    LET first == offset + CeilDiv(lo - offset, step) * step
        n == IF first > hi THEN 0 ELSE ((hi - first) \div step) + 1
    IN  [k \in 1..n |-> first + (k - 1) * step]

\* C5: for step > 0, StepTicker(step, offset).get_ticks(interval) is
\* exactly the part of the absolute sequence offset + n*step that lies in
\* [interval.min, interval.max], starting at its smallest member >= min.
C5_StepTicksAreAbsoluteSequence ==
    (Ran("step") /\ call.step > 0 /\ call.min <= call.max)
        => ret.ticks = AbsoluteSequence(call.step, call.offset, call.min, call.max)

\* C6: every ticker (Step, LogMain, LogSub) returns a strictly ascending
\* sequence whose values all lie within the bounds of the range; for an
\* interval (min <= max) that is interval.min <= v <= interval.max.
\* The values are exact here: the rounding of the float additions is not
\* part of the model.
C6_TicksAscendingWithinInterval ==
    (ret.done /\ call.op \in {"step", "logmain", "logsub"})
        => /\ StrictlyAscending(ret.ticks)
           /\ \A i \in 1..Len(ret.ticks) :
                /\ Min2(call.min, call.max) <= ret.ticks[i]
                /\ ret.ticks[i] <= Max2(call.min, call.max)
           /\ call.min <= call.max =>
                \A i \in 1..Len(ret.ticks) :
                    call.min <= ret.ticks[i] /\ ret.ticks[i] <= call.max

\* A step ticker with a negative offset ran on an interval and returned
\* several ticks.
C6_Witness ==
    /\ Ran("step") /\ call.offset < 0 /\ call.min < call.max
    /\ Len(ret.ticks) >= 3

\* C7: linear normalization over a zero-length interval returns 0.0 for
\* every value instead of failing.
C7_ZeroLengthLinearIsZero ==
    (Ran("linear") /\ call.min = call.max)
        => ret.ok /\ ret.val = RatInt(0)

InUnitInterval(q) == RatLE(RatInt(0), q) /\ RatLE(q, RatInt(1))

C10_LogRejectsNonPositive ==
    Ran("log")
        => /\ (call.value <= 0 \/ call.min <= 0 \/ call.max <= 0) => ~ret.ok
           /\ (call.value > 0 /\ call.min > 0 /\ call.max = call.min)
                => ret.ok /\ ret.val = RatInt(0)

\* The values of a tick sequence.
TickValues(t) == {t[i] : i \in 1..Len(t)}

\* The powers b^e (e >= 0) from v up to hi, in fixed-point.
RECURSIVE PowersFrom(_, _, _)
PowersFrom(b, v, hi) ==
    IF v > hi THEN {} ELSE {v} \cup PowersFrom(b, v * b, hi)

\* The powers of b up to hi, b^-1 included where it is a fixed-point number
\* (lower powers lie below every interval the tickers are called with).
Powers(b, hi) ==
    PowersFrom(b, Unit, hi) \cup (IF Unit % b = 0 THEN {Unit \div b} ELSE {})

\* C11: for an interval with 0 < min <= max, LogMainTicker(b) returns
\* exactly the powers b^e (e integer) with min <= b^e <= max, ascending,
\* and no other value.
C11_LogMainTicksAreThePowersInRange ==
    (Ran("logmain") /\ 0 < call.min /\ call.min <= call.max)
        => /\ StrictlyAscending(ret.ticks)
           /\ TickValues(ret.ticks)
                = {v \in Powers(call.base, call.max) : call.min <= v}

\* LogMainTicker(10) ran on [0.5, 150] and returned 1, 10, 100.
C11_Witness ==
    /\ Ran("logmain") /\ call.base = DefaultBase
    /\ call.min = Unit \div 2 /\ call.max = U(150)
    /\ ret.ticks = <<U(1), U(10), U(100)>>

\* C12: for an interval with 0 < min <= max, LogSubTicker(b) returns
\* exactly the values b^e * c (e integer, c in 2 .. b-1) that lie in
\* [min, max], ascending and without duplicates, and no power b^e is among
\* them.
C12_LogSubTicksAreTheMultiplesInRange ==
    (Ran("logsub") /\ 0 < call.min /\ call.min <= call.max)
        => /\ StrictlyAscending(ret.ticks)
           /\ TickValues(ret.ticks)
                = {v \in {p * c : p \in Powers(call.base, call.max),
                                  c \in 2..(call.base - 1)} :
                      call.min <= v /\ v <= call.max}
           /\ TickValues(ret.ticks) \cap Powers(call.base, call.max) = {}

\* LogSubTicker ran on an interval that spans more than two decades and
\* returned ticks of each of them.
C12_Witness ==
    /\ Ran("logsub") /\ call.base = DefaultBase
    /\ call.min = Unit \div 2 /\ call.max = U(150)
    /\ Len(ret.ticks) = 21
    /\ ret.ticks[1] = Unit \div 2 /\ ret.ticks[21] = U(90)

\* C13: a ticker given parameters it cannot serve returns no ticks and
\* raises no error: StepTicker with step <= 0, the logarithmic tickers on an
\* interval with min <= 0.
C13_UnservableTickerReturnsNoTicks ==
    (\/ Ran("step") /\ call.step <= 0
     \/ (Ran("logmain") \/ Ran("logsub")) /\ call.min <= 0)
        => ret.ok /\ ret.ticks = <<>>

\* StepTicker with a negative step ran on an interval with min < max.
C13_Witness ==
    Ran("step") /\ call.step < 0 /\ call.min < call.max /\ ret.ticks = <<>>

\* The normalizer of the call, applied to another value of the same range.
NormalizeAlso(value) ==
    IF call.op = "linear"
    THEN LinearNormalize(Range(call.min, call.max), value)
    ELSE LogNormalize(call.base, Range(call.min, call.max), value)

\* What C28 says of a call on a range with min > max: the call returns,
\* the result is in [0, 1], 0 at min and 1 at max, and no smaller value
\* of the range has a smaller result.
InvertedScale ==
    /\ ret.ok
    /\ InUnitInterval(ret.val)
    /\ call.value = call.min => ret.val = RatInt(0)
    /\ call.value = call.max => ret.val = RatInt(1)
    /\ \A w \in Vals \cup LogVals :
          (w <= call.value /\ NormalizeAlso(w).ok)
              => RatLE(ret.val, NormalizeAlso(w).val)

\* C28 as stated: a Range with min > max inverts the scale of the linear
\* and of the logarithmic normalizer: normalize(min) = 0, normalize(max) = 1,
\* the result is non-increasing in the value and within [0, 1] for every
\* value.
C28_InvertedRangeInvertsTheScale ==
    ((Ran("linear") \/ Ran("log")) /\ call.min > call.max) => InvertedScale

\* C28 as amended: the same for the linear normalizer, and for the
\* logarithmic normalizer on a range whose two bounds are positive.
C28_InvertedRangeInvertsWhereDefined ==
    /\ (Ran("linear") /\ call.min > call.max) => InvertedScale
    /\ (Ran("log") /\ call.min > call.max /\ call.max > 0) => InvertedScale

\* The logarithmic normalizer ran on a range with min > max > 0 and a value
\* strictly between the bounds, and returned a value strictly between 0
\* and 1.
C28_Witness ==
    /\ Ran("log") /\ call.min > call.value /\ call.value > call.max
    /\ call.max > 0
    /\ ret.ok /\ RatLT(RatInt(0), ret.val) /\ RatLT(ret.val, RatInt(1))

\* The exponent of a value that is not 0: 10^exp <= |value| < 10^(exp + 1).
IsExponentOf(exp, value) ==
    /\ PowFx(10, exp) <= Abs(value)
    /\ Abs(value) < PowFx(10, exp + 1)

\* The mantissa value / 10^exp lies within rounding distance of k: strictly
\* nearer to k than to any other whole number, or no farther than 1/2.
RoundsStrictlyTo(value, exp, k) ==
    2 * Abs(value - k * PowFx(10, exp)) < PowFx(10, exp)
RoundsTo(value, exp, k) ==
    2 * Abs(value - k * PowFx(10, exp)) <= PowFx(10, exp)

\* C27: with precision 0, 0 is written "0"; any other value is written with
\* exponent floor(log10(|value|)), as 10^exponent whenever the mantissa
\* rounds to 1 and as mantissa x 10^exponent with the rounded mantissa
\* otherwise.
C27_ScientificDropsMantissaThatRoundsToOne ==
    Ran("format")
        => /\ call.value = 0 => ret.val.form = "0"
           /\ call.value # 0
                => /\ IsExponentOf(ret.val.exp, call.value)
                   /\ RoundsStrictlyTo(call.value, ret.val.exp, 1)
                        => ret.val.form = "10^exp"
                   /\ ~RoundsTo(call.value, ret.val.exp, 1)
                        => /\ ret.val.form = "mantissa x 10^exp"
                           /\ RoundsTo(call.value, ret.val.exp, ret.val.mantissa)

\* The lines parse_data is to take a pair from: not blank, no comment,
\* more than max(xc, yc) columns, and a number in column xc and in column
\* yc.
YieldsPair(line, xc, yc) ==
    /\ ~line.comment /\ \E i \in 1..Len(line.cells) : ~line.cells[i].empty
    /\ Len(line.cells) > Max2(xc, yc)
    /\ line.cells[xc + 1].is_number /\ line.cells[yc + 1].is_number
PairLines(lines, xc, yc) ==
    SelectSeq(lines, LAMBDA line : YieldsPair(line, xc, yc))

\* C25: parse_data never raises and yields, in input order, exactly one
\* (x, y) pair for every line that is not blank, is no comment, has more
\* than max(xc, yc) columns and holds numbers in the columns xc and yc;
\* the x and the y sequence have the same length.
C25_ParseDataYieldsTheWellFormedLines ==
    Ran("parse")
        => LET lines == PairLines(call.data_text, call.x_column, call.y_column)
           IN  /\ ret.ok
               /\ Len(ret.val.xs) = Len(ret.val.ys)
               /\ ret.val.xs = [i \in 1..Len(lines) |-> lines[i].cells[call.x_column + 1].val]
               /\ ret.val.ys = [i \in 1..Len(lines) |-> lines[i].cells[call.y_column + 1].val]

\* C29: over any sequence of renders into one document, no two elements
\* that were created with the same base name have the same id.
C29_IdsOfOneBaseNameAreUnique ==
    \A i, j \in 1..Len(scene) :
        (i # j /\ scene[i].id_str = scene[j].id_str) => scene[i].id # scene[j].id


---------------------------------------------------------------------------
(* Properties of the renders that share a graph (SpecShared)               *)

Sharing == runs # <<>>

\* Render i has left the loop of render_graph_parts.
Finished(i) == ~runs[i].ok \/ runs[i].pos = Len(SharedParts)

Primitives(i) == Stamp(scene[i].nodes, 0)

Alone(i) ==
    Stamp(RenderGraphParts(BuildGraph(req.input).graph, Px(req.input.plot_width),
                           Px(req.input.plot_height), SharedParts).nodes, i)

=============================================================================
